---- MODULE Spec2Model ----
(***************************************************************************)
(* Model of the gunpradb scrapers.                                         *)
(*                                                                         *)
(*   - the checkpointed listing walker of scrape_hlj.py and                *)
(*     scrape_bandai_hobby.py (main, scrape_*_search_page, write_rows,     *)
(*     read_urls_jsonl, load/save_group_checkpoint);                       *)
(*   - the concurrent detail fetcher of scrape_hlj_details.py              *)
(*     (main, scrape_worker, scrape_one_url).                              *)
(*                                                                         *)
(* The web site is the environment: a newest-first listing per group that  *)
(* gains items at the top, a pager, and fetches that may fail.             *)
(***************************************************************************)
EXTENDS Integers, Sequences, FiniteSets, TLC

\* ------------------------------------------------------------------------
\* Values and bounds
\* ------------------------------------------------------------------------

\* Python's None (no checkpoint, no candidate, no result).
None == "None"

\* item_url of an item whose href is empty.
NoUrl == ""

\* The product URLs of the modelled site.
URLs == {"u1", "u2", "u3"}

\* One group of scrape_hlj.py and one of scrape_bandai_hobby.py.
Groups == {"PG", "BH-HG"}

\* The script that owns a group key.
Site(g) == IF g = "PG" THEN "hlj" ELSE "bandai"

\* Most items a listing holds.
MaxItems == 3

\* Items the site shows per listing page.
PageSize == 2

\* Largest page number a pager shows.
MaxPager == 2

Min(a, b) == IF a < b THEN a ELSE b

\* ------------------------------------------------------------------------
\* The listing site
\* ------------------------------------------------------------------------

\* What extract_*_search_results returns per block: the URL built from the
\* href ("" when there is none), whether the title text is non-empty and
\* whether the price text is non-empty.
RawItems ==
    {[url |-> NoUrl, title |-> TRUE, price |-> TRUE]}
    \cup {[url |-> u, title |-> tp[1], price |-> tp[2]] :
            u \in URLs,
            tp \in {<<TRUE, TRUE>>, <<FALSE, TRUE>>, <<TRUE, FALSE>>}}

\* Number of pages the listing really has (an empty listing still has page 1).
NumPages(l) ==
    IF Len(l) = 0 THEN 1 ELSE (Len(l) + PageSize - 1) \div PageSize

\* The items of page n.
PageItems(l, n) == SubSeq(l, (n - 1) * PageSize + 1, Min(n * PageSize, Len(l)))

\* A visible next link exists while a further page exists.
HasNext(l, n) == n < NumPages(l)

\* page.wait_for_selector / wait_for_prices / wait_for_products succeed:
\* the page shows a block, and on HLJ a price span with text.
PageReady(site, items) ==
    /\ Len(items) > 0
    /\ site = "hlj" => \E i \in 1..Len(items) : items[i].price

\* ------------------------------------------------------------------------
\* Pure helpers of the walker
\* ------------------------------------------------------------------------

\* A loader that reads nothing (the walker of scrape.py starts from an empty
\* seen set).
read_urls_none(rows) == {}

\* read_urls_jsonl: the url values of the sink's rows.
read_urls_jsonl(rows) == {rows[i].url : i \in 1..Len(rows)}

\* path.open("w"), as scrape.py opens its sink: the content is dropped.
OpenSinkTruncate(rows) == <<>>

\* path.open("a"): the content the sink has once it is opened.
OpenSink(rows) == rows

\* A walker that never captures a candidate checkpoint.
CaptureLatestNever(page_number, latest, item_url) == latest

\* `if page_number == 1 and not latest_item_url and item_url`.
CaptureLatest(page_number, latest, item_url) ==
    IF page_number = 1 /\ latest = None /\ item_url # NoUrl
    THEN item_url
    ELSE latest

\* `if checkpoint_url and item_url == checkpoint_url`.
IsCheckpoint(checkpoint_url, item_url) ==
    checkpoint_url # None /\ item_url = checkpoint_url

\* `all([title, href, price_text])` on HLJ, `all([title, href])` on Bandai.
RequiredOk(site, item) ==
    IF site = "hlj"
    THEN item.title /\ item.url # NoUrl /\ item.price
    ELSE item.title /\ item.url # NoUrl

\* The row appended for an item (msrp is null when the price text is empty).
Row(item) == [url |-> item.url, msrp |-> item.price]

\* `seen.add(item_url)`, placed before the required-field test.
MarkSeen(seen, item_url) == seen \cup {item_url}

\* What the loop does with the rest of the page once the checkpoint is hit.
AfterHit(rest) == <<>>

\* The `for item in raw_items` loop of scrape_*_search_page.  st carries the
\* loop's variables (seen, latest, rows, hit) and two history fields:
\*   elig  URLs met before any hit with all required fields present,
\*   met   URLs of the items the loop looked at before any hit.
RECURSIVE ProcessItems(_, _, _, _, _)
ProcessItems(site, page_number, checkpoint_url, items, st) ==
    IF items = <<>> THEN st
    ELSE
      LET item == Head(items)
          st0  == [st EXCEPT !.latest =
                       CaptureLatest(page_number, @, item.url)]
      IN  IF IsCheckpoint(checkpoint_url, item.url)
          THEN ProcessItems(site, page_number, checkpoint_url,
                            AfterHit(Tail(items)),
                            [st0 EXCEPT !.hit = TRUE])
          ELSE
            LET st1 == [st0 EXCEPT
                          !.met = @ \cup {item.url},
                          !.elig = IF RequiredOk(site, item)
                                   THEN @ \cup {item.url} ELSE @]
            IN  IF item.url \in st1.seen
                THEN ProcessItems(site, page_number, checkpoint_url,
                                  Tail(items), st1)
                ELSE
                  LET st2 == [st1 EXCEPT !.seen = MarkSeen(@, item.url)]
                  IN  IF ~RequiredOk(site, item)
                      THEN ProcessItems(site, page_number, checkpoint_url,
                                        Tail(items), st2)
                      ELSE ProcessItems(site, page_number, checkpoint_url,
                                        Tail(items),
                                        [st2 EXCEPT !.rows =
                                             Append(@, Row(item))])

\* A main that keeps every grade in the file of one grade.
raw_path_shared(g_type) == "PG"

\* `Path(f"./data/raw/{g_type}.jsonl")` in main: the sink file of a grade,
\* named by its stem.
raw_path(g_type) == g_type

\* checkpoint_path_for_group: ./data/state/<group_key>.txt, named by its stem.
checkpoint_path_for_group(group_key) == group_key

\* A write_rows without its flush: the rows stay in the buffer of fd.
write_rows_unflushed(file, rows) == file

\* write_rows: every row is written, then the file is flushed.
write_rows(file, rows) == file \o rows

\* A main that saves whatever the walk returned.
save_group_checkpoint_always(old, latest) == latest

\* `if latest_item_url: save_group_checkpoint(...)`.
save_group_checkpoint(old, latest) == IF latest # None THEN latest ELSE old

\* ------------------------------------------------------------------------
\* State
\* ------------------------------------------------------------------------

VARIABLES
    listing,   \* listing[g]: the items of group g's listing, newest first
    pager,     \* pager[g]: the largest page number the first page's pager shows
    sink,      \* sink[g]: the rows of ./data/raw/<g>.jsonl
    ckpt,      \* ckpt[g]: content of ./data/state/<g>.txt, None when absent
    fresh,     \* fresh[g]: the last thing that happened to g is a successful run
    w,         \* the walker run in progress or last ended
    dfile,     \* the content of ./data/data.jsonl that reached the file
    dbuf,      \* what the detail run wrote to fd and has not flushed
    d,         \* the detail run in progress or last ended (scrape_worker)
    task,      \* task[u]: the scrape_one_url task of pending URL u
    completed, \* the URLs of the ended tasks, in the order they ended
    rfile,     \* the bytes of a raw sink that reached the file
    rbuf,      \* what a walker wrote to the raw sink's fd and has not flushed
    wr,        \* the walker process seen from its sink: fd and write_rows
    redirect,  \* the listed URLs the site answers with a redirect
    call       \* a call of one of the program's pure functions

wvars == <<listing, pager, sink, ckpt, fresh, w>>
dvars == <<dfile, dbuf, d, task, completed>>
rvars == <<rfile, rbuf, wr>>
rvars_file == <<rfile, rbuf>>
vars == <<listing, pager, sink, ckpt, fresh, w, dfile, dbuf, d, task, completed,
          rfile, rbuf, wr, redirect, call>>

\* No function call is looked at.
NoCall == [fn |-> "none", arg |-> None, res |-> None, done |-> FALSE]

\* No walker process is looked at byte by byte.
NoWriter ==
    [pc |-> "off", g |-> "PG", rows |-> <<>>, lost |-> 0,
     latest |-> None, prev |-> None]

\* A task that does not exist (its URL is not pending).
NoTask ==
    [pc |-> "none", attempt |-> 0, page |-> FALSE, ret |-> None,
     cancel |-> FALSE, fetches |-> 0, slept |-> <<>>, status_at |-> -1,
     outs |-> <<>>]

\* The detail run's locals before any run.
IdleDetail ==
    [pc |-> "idle", urls |-> {}, done |-> 0, ok |-> 0, err |-> 0,
     sem |-> 0, stopped |-> FALSE, raised |-> FALSE,
     dfile0 |-> <<>>, consumed |-> <<>>, flushes |-> 0, lost |-> 0]

\* The walker's locals before any run.
IdleRun ==
    [pc |-> "idle", g |-> "PG", seen |-> {}, checkpoint_url |-> None,
     latest |-> None, page_number |-> 1, max_pages |-> 1, hit |-> FALSE,
     sink0 |-> <<>>, ckpt0 |-> None, seen0 |-> {}, repeat |-> FALSE,
     fetched |-> 0, written |-> <<>>, elig |-> {}, met |-> {},
     clicked |-> 0, script |-> "walker", rows |-> <<>>]

Init ==
    /\ listing = [g \in Groups |-> <<>>]
    /\ pager = [g \in Groups |-> 1]
    /\ sink = [g \in Groups |-> <<>>]
    /\ ckpt = [g \in Groups |-> None]
    /\ fresh = [g \in Groups |-> FALSE]
    /\ w \in {[IdleRun EXCEPT !.g = g] : g \in Groups}
    /\ dfile = <<>>
    /\ dbuf = <<>>
    /\ d = IdleDetail
    /\ task = [u \in URLs |-> NoTask]
    /\ completed = <<>>
    /\ rfile = <<>>
    /\ rbuf = <<>>
    /\ wr = NoWriter
    /\ redirect = {}
    /\ call = NoCall

\* ------------------------------------------------------------------------
\* The site changes: a new item appears at the top of the listing, and the
\* pager is redrawn.  Changes happen between runs; the locals of the run that
\* ended before the change are gone with its process.
\* ------------------------------------------------------------------------

Stopped(pc) == pc \in {"idle", "done", "aborted"}

SiteAdd(g) ==
    /\ Stopped(w.pc)
    /\ Len(listing[g]) < MaxItems
    /\ \E item \in RawItems, p \in 1..MaxPager :
         /\ listing' = [listing EXCEPT ![g] = <<item>> \o @]
         /\ pager' = [pager EXCEPT ![g] = p]
    /\ fresh' = [fresh EXCEPT ![g] = FALSE]
    /\ w' = [IdleRun EXCEPT !.g = w.g]
    /\ UNCHANGED <<sink, ckpt, dvars, rvars, redirect, call>>

\* ------------------------------------------------------------------------
\* The walker: main of scrape_hlj.py / scrape_bandai_hobby.py
\* ------------------------------------------------------------------------

\* load_group_checkpoint: the trimmed content, None when absent or empty.
load_group_checkpoint(value) == IF value = NoUrl THEN None ELSE value

\* main up to the call of scrape_worker: the seen set and the checkpoint are
\* loaded and the sink is opened for append.
WStart(g) ==
    /\ Stopped(w.pc)
    /\ sink' = [sink EXCEPT ![raw_path(g)] = OpenSink(@)]
    /\ w' = [IdleRun EXCEPT
               !.pc = "goto", !.g = g,
               !.seen = read_urls_jsonl(sink[raw_path(g)]),
               !.checkpoint_url =
                   load_group_checkpoint(ckpt[checkpoint_path_for_group(g)]),
               !.sink0 = sink[g],
               !.ckpt0 = ckpt[g],
               !.seen0 = read_urls_jsonl(sink[g]),
               !.repeat = fresh[g]]
    /\ fresh' = [fresh EXCEPT ![g] = FALSE]
    /\ UNCHANGED <<listing, pager, ckpt, dvars, rvars, redirect, call>>

\* context.new_page, page.goto(url) and last_page_from_pager succeed.
WGoto(g) ==
    /\ w.pc = "goto" /\ w.g = g
    /\ w' = [w EXCEPT !.pc = "page", !.max_pages = pager[g], !.fetched = 1]
    /\ UNCHANGED <<listing, pager, sink, ckpt, fresh, dvars, rvars, redirect, call>>

\* A loop that goes on paging after a checkpoint hit.
AfterPageIgnoreHit(site, hit, page_number, max_pages, has_next) ==
    IF site = "bandai" /\ page_number >= max_pages THEN "save"
    ELSE IF ~has_next THEN "save"
    ELSE "next"

\* Where the loop goes after write_rows.
AfterPage(site, hit, page_number, max_pages, has_next) ==
    IF hit THEN "save"
    ELSE IF site = "bandai" /\ page_number >= max_pages THEN "save"
    ELSE IF ~has_next THEN "save"
    ELSE "next"

\* One iteration of `while page_number <= max_pages` up to the next link:
\* wait for the page, extract, run the item loop, write_rows.
WPage(g) ==
    /\ w.pc = "page" /\ w.g = g
    /\ LET items == PageItems(listing[g], w.page_number)
           st == ProcessItems(Site(g), w.page_number, w.checkpoint_url, items,
                              [seen |-> w.seen, latest |-> w.latest,
                               rows |-> <<>>, hit |-> FALSE,
                               elig |-> w.elig, met |-> w.met])
       IN  /\ PageReady(Site(g), items)
           /\ sink' = [sink EXCEPT ![raw_path(g)] = write_rows(@, st.rows)]
           /\ w' = [w EXCEPT
                      !.pc = AfterPage(Site(g), st.hit, w.page_number,
                                       w.max_pages,
                                       HasNext(listing[g], w.page_number)),
                      !.seen = st.seen, !.latest = st.latest,
                      !.hit = st.hit, !.elig = st.elig, !.met = st.met,
                      !.written = @ \o st.rows]
    /\ UNCHANGED <<listing, pager, ckpt, fresh, dvars, rvars, redirect, call>>

\* next_link.click() (HLJ) or page.goto(next_url) (Bandai), the settle sleep
\* and `page_number += 1`, then the loop test.
WNext(g) ==
    /\ w.pc = "next" /\ w.g = g
    /\ w' = [w EXCEPT
               !.page_number = @ + 1,
               !.fetched = @ + 1,
               !.clicked = w.page_number,
               !.pc = IF w.page_number + 1 <= w.max_pages
                      THEN "page" ELSE "save"]
    /\ UNCHANGED <<listing, pager, sink, ckpt, fresh, dvars, rvars, redirect, call>>

\* A navigation error or a timeout while a listing page is fetched: the
\* exception leaves scrape_worker and main, the `with` closes the sink.
WFail(g) ==
    /\ w.pc \in {"goto", "page", "next"} /\ w.g = g
    /\ w' = [w EXCEPT !.pc = "aborted"]
    /\ UNCHANGED <<listing, pager, sink, ckpt, fresh, dvars, rvars, redirect, call>>

\* The tail of main after scrape_worker returned.
WSave(g) ==
    /\ w.pc = "save" /\ w.g = g /\ w.script = "walker"
    /\ ckpt' = [ckpt EXCEPT ![checkpoint_path_for_group(g)] =
                    save_group_checkpoint(@, w.latest)]
    /\ w' = [w EXCEPT !.pc = "done"]
    /\ fresh' = [fresh EXCEPT ![g] = TRUE]
    /\ UNCHANGED <<listing, pager, sink, dvars, rvars, redirect, call>>

\* Runs of the walker for one grade, against a site that changes between
\* runs.
Next ==
    \E g \in Groups :
        /\ g = w.g
        /\ \/ SiteAdd(g)
           \/ WStart(g)
           \/ WGoto(g)
           \/ WPage(g)
           \/ WNext(g)
           \/ WFail(g)
           \/ WSave(g)

Spec == Init /\ [][Next]_vars

\* ------------------------------------------------------------------------
\* Claims about the walker
\* ------------------------------------------------------------------------

\* Page 1 of g's listing shows an item that has a URL.
PageOneHasUrl(g) ==
    \E i \in 1..Len(PageItems(listing[g], 1)) :
        PageItems(listing[g], 1)[i].url # NoUrl

\* The run has finished the first page (rows written, next step decided).
PageOneDone == w.pc \in {"next", "save", "done"} \/ w.page_number > 1

\* C1 (as amended): a run that directly follows a successful run of the same
\* group on an unchanged listing appends nothing to the sink; and when page 1
\* shows an item with a URL, it hits the checkpoint on page 1 and requests no
\* further page.
C1_SecondRunAppendsNothing ==
    w.repeat =>
        /\ sink[w.g] = w.sink0
        /\ w.written = <<>>
        /\ (PageOneHasUrl(w.g) /\ PageOneDone) =>
               /\ w.hit
               /\ w.page_number = 1
               /\ w.fetched = 1
               /\ w.pc # "next"

\* C1 witness: a second run over a two-page listing whose first run wrote
\* rows ends on the checkpoint.
C1_Witness ==
    /\ w.repeat /\ w.pc = "done" /\ w.hit
    /\ Len(sink[w.g]) >= 2
    /\ NumPages(listing[w.g]) > 1

\* C1 as stated: every such second run that ends successfully has hit the
\* checkpoint on page 1 and requested no further page.
C1_Original ==
    (w.repeat /\ w.pc = "done") =>
        /\ sink[w.g] = w.sink0
        /\ w.hit
        /\ w.page_number = 1
        /\ w.fetched = 1

\* Index of the first item of a page whose URL is cp, 0 when there is none.
FirstIndex(items, cp) ==
    IF \E i \in 1..Len(items) : items[i].url = cp
    THEN CHOOSE i \in 1..Len(items) :
             /\ items[i].url = cp
             /\ \A j \in 1..(i - 1) : items[j].url # cp
    ELSE 0

\* The rows of the items of a page, one per URL, in listing order.
RECURSIVE RowsOnce(_, _)
RowsOnce(items, done) ==
    IF items = <<>> THEN <<>>
    ELSE IF Head(items).url \in done THEN RowsOnce(Tail(items), done)
    ELSE <<Row(Head(items))>>
             \o RowsOnce(Tail(items), done \cup {Head(items).url})

\* The case of C2: the checkpoint the run loaded is the URL of item #k of
\* page 1, and items #1..#k-1 carry all required fields and are not in the
\* sink the run started from.
C2_Case(k) ==
    LET items == PageItems(listing[w.g], 1)
    IN  /\ w.checkpoint_url # None
        /\ k = FirstIndex(items, w.checkpoint_url)
        /\ k >= 1
        /\ \A j \in 1..(k - 1) :
               /\ RequiredOk(Site(w.g), items[j])
               /\ items[j].url \notin w.seen0

C3_NoDuplicateUrl ==
    \A g \in Groups :
        \A i, j \in 1..Len(sink[g]) :
            sink[g][i].url = sink[g][j].url => i = j

\* C3 witness: a later run met a URL that an earlier run had written, and
\* wrote further rows.
C3_Witness ==
    /\ w.pc \in {"done", "aborted"}
    /\ w.sink0 # <<>>
    /\ w.written # <<>>
    /\ w.seen0 \cap w.met # {}

\* Number of rows of a sequence that carry URL u.
Count(rows, u) == Cardinality({i \in 1..Len(rows) : rows[i].url = u})

\* C4: within one run a URL of the seen set loaded at the start is never
\* written, and a URL not yet seen that shows up with all required fields
\* before any checkpoint hit is written exactly once.
C4_EmitOncePerRun ==
    \A u \in URLs :
        /\ u \in w.seen0 => Count(w.written, u) = 0
        /\ (u \in w.elig /\ u \notin w.seen0) => Count(w.written, u) = 1

\* C5: when a listing-page fetch fails the checkpoint still has the value of
\* the run's start and the sink holds the rows it had then followed by every
\* row the run flushed.
C5_AbortKeepsCheckpointAndRows ==
    w.pc = "aborted" =>
        /\ ckpt[w.g] = w.ckpt0
        /\ sink[w.g] = w.sink0 \o w.written

\* C5 witness: a run with a checkpoint and rows from earlier runs fails after
\* it flushed rows of its own and captured another candidate.
C5_Witness ==
    /\ w.pc = "aborted"
    /\ w.sink0 # <<>>
    /\ w.written # <<>>
    /\ w.ckpt0 # None
    /\ w.latest \notin {None, w.ckpt0}

\* ------------------------------------------------------------------------
\* The detail fetcher: scrape_hlj_details.py
\* ------------------------------------------------------------------------

\* CONCURRENCY, read from the environment (default 8); the runs modelled
\* here are started with CONCURRENCY=2.
CONCURRENCY == 2

\* MAX_RETRIES, read from the environment; its default.
MAX_RETRIES == 3

\* `done % 10 == 0`.
FLUSH_EVERY == 10

\* What a fetch attempt (page.goto and extract_hlj_details_page) can end in:
\* a response whose status is not 200, a record, a PlaywrightTimeoutError or
\* PlaywrightError, or any other exception.
Outcomes == {"status", "ok", "transient", "other"}

\* The results a task can return.
ErrorResults == {"http", "parse_failed", "scrape_exception"}

\* Most lines the detail sink holds when a further run starts.
MaxDetailLines == 2

\* The address a redirect of the site leads to.
Moved(u) == CASE u = "u1" -> "u1/" [] u = "u2" -> "u2/" [] OTHER -> "u3/"

\* page.url once page.goto(u) has succeeded: the listed address, or the one
\* the site redirected to.
PageUrl(u) == IF u \in redirect THEN Moved(u) ELSE u

\* The "url" of the record extract_hlj_details_page builds for the task of
\* URL u: `"url": page.url`.
RecordUrl(u) == PageUrl(u)

\* A loop that takes no result for an error.
IsErrorNever(ret) == FALSE

\* `"error" in result`.
IsError(ret) == ret \in ErrorResults

\* A line written without its newline.
LineNoNewline(u) == <<[url |-> u, part |-> "json"]>>

\* The bytes of `json.dumps(record, ...) + "\n"` for a record whose "url" is
\* u: the JSON text, then the newline.
Line(u) == <<[url |-> u, part |-> "json"], [url |-> u, part |-> "nl"]>>

\* The lines of a file: the bytes up to and including each newline, and what
\* follows the last newline.
RECURSIVE SplitLines(_, _)
SplitLines(bytes, cur) ==
    IF bytes = <<>> THEN (IF cur = <<>> THEN <<>> ELSE <<cur>>)
    ELSE IF Head(bytes).part = "nl"
         THEN <<Append(cur, Head(bytes))>> \o SplitLines(Tail(bytes), <<>>)
         ELSE SplitLines(Tail(bytes), Append(cur, Head(bytes)))

\* json.loads accepts the line and the record has a url.
ValidLine(l) == Len(l) = 2 /\ l[1].part = "json" /\ l[2].part = "nl"

\* read_data_jsonl on the detail sink: the urls of the lines that parse.
read_data_jsonl(bytes) ==
    LET ls == SplitLines(bytes, <<>>)
    IN  {ls[i][1].url : i \in {j \in 1..Len(ls) : ValidLine(ls[j])}}

\* main: the pending set, the URLs of the raw sinks that the detail sink
\* does not hold.
PendingUrls ==
    UNION {read_urls_jsonl(sink[g]) : g \in Groups} \ read_data_jsonl(dfile)

\* What the buffer of fd does when text is written to it: the text fits
\* ("none"), the buffered bytes are written out first to make room
\* ("buffer"), or the text is larger than the buffer and is written out as
\* well ("all").
Spills == {"none", "buffer", "all"}

\* A buffer that is filled to the brim: the bytes written out end in the
\* middle of the text.
fd_write_split(fs, text, spill) ==
    IF spill = "none"
    THEN [fs EXCEPT !.buf = @ \o text]
    ELSE [file |-> fs.file \o fs.buf \o SubSeq(text, 1, 1),
          buf |-> SubSeq(text, 2, Len(text))]

\* fd.write(text) on a text file with the default buffering: the text goes
\* to the end of fd's buffer; bytes leave the buffer for the file in whole
\* write calls only.
fd_write(fs, text, spill) ==
    CASE spill = "none"   -> [fs EXCEPT !.buf = @ \o text]
      [] spill = "buffer" -> [file |-> fs.file \o fs.buf, buf |-> text]
      [] spill = "all"    -> [file |-> fs.file \o fs.buf \o text,
                              buf |-> <<>>]

\* fd.flush(): the buffer goes to the end of the file.
fd_flush(fs) == [file |-> fs.file \o fs.buf, buf |-> <<>>]

\* `if done % 10 == 0 or done == len(urls)`.
ShouldFlush(done, n) == done % FLUSH_EVERY = 0 \/ done = n

\* A semaphore that never blocks.
CanAcquireAlways(sem) == TRUE

\* asyncio.Semaphore: a slot is free.
CanAcquire(sem) == sem > 0

\* A task as asyncio.create_task leaves it: waiting at `async with semaphore`.
NewTask == [NoTask EXCEPT !.pc = "sem"]

\* The task has ended: returned, raised or was cancelled.
Ended(t) == t.pc \in {"none", "done", "raised", "cancelled"}

\* `return <result>` inside the try, then `finally: await page.close()`.
Finish(t, ret) == [t EXCEPT !.pc = "done", !.ret = ret, !.page = FALSE]

\* `result = await extract_hlj_details_page(page); if result: return result`.
OnRecord(t) == Finish(t, "ok")

\* A delay that grows by a fixed step.
BackoffLinear(attempt) == 2 * attempt

\* `2**attempt`, the seconds of `asyncio.sleep` after a failed attempt.
Backoff(attempt) == 2 ^ attempt

\* A retry loop that allows one attempt too many.
OnTransientExtra(t) ==
    IF t.attempt <= MAX_RETRIES
    THEN [t EXCEPT !.pc = "sleep", !.slept = Append(@, Backoff(t.attempt))]
    ELSE Finish(t, "parse_failed")

\* `except (PlaywrightTimeoutError, PlaywrightError)`: sleep 2**attempt and
\* go on while attempt < MAX_RETRIES, else break to the parse_failed return.
OnTransient(t) ==
    IF t.attempt < MAX_RETRIES
    THEN [t EXCEPT !.pc = "sleep", !.slept = Append(@, Backoff(t.attempt))]
    ELSE Finish(t, "parse_failed")

\* A task that treats a bad status like a transient failure.
OnStatusRetry(t) == OnTransient(t)

\* `if response and response.status != 200: return {"error": status, ...}`.
OnStatus(t) == Finish(t, "http")

\* `except Exception as exc: return {"error": "scrape_exception", ...}`.
OnException(t) == Finish(t, "scrape_exception")

\* One pass of `for attempt in range(MAX_RETRIES + 1)`.  fetches counts the
\* page.goto calls, status_at remembers the attempt that got a status and
\* outs how each attempt ended.
AttemptStep(t, outcome) ==
    LET t1 == [t EXCEPT !.fetches = @ + 1,
                        !.outs = Append(@, outcome),
                        !.status_at = IF outcome = "status"
                                      THEN t.attempt ELSE @]
    IN  CASE outcome = "status"    -> OnStatus(t1)
          [] outcome = "ok"        -> OnRecord(t1)
          [] outcome = "transient" -> OnTransient(t1)
          [] outcome = "other"     -> OnException(t1)

\* A shutdown that cancels nothing.
CancelNone(ts) == ts

\* `for task in tasks: task.cancel()`: ended tasks are left alone.
CancelAll(ts) ==
    [u \in URLs |-> IF Ended(ts[u]) THEN ts[u]
                    ELSE [ts[u] EXCEPT !.cancel = TRUE]]

\* The body of `for future in asyncio.as_completed(tasks)` for the result
\* ret of the task of URL u: the counters, the write and the periodic flush;
\* spill is what the buffer does on the write.
\* An error result is counted and printed, and the loop continues.
ConsumeOne(dd, fs, u, ret, spill) ==
    LET d1 == [dd EXCEPT !.done = @ + 1,
                         !.consumed = Append(@, [url |-> u, ret |-> ret])]
    IN  IF IsError(ret)
        THEN [d |-> [d1 EXCEPT !.err = @ + 1], fs |-> fs]
        ELSE LET fs1 == fd_write(fs, Line(RecordUrl(u)), spill)
                 fl  == ShouldFlush(d1.done, Cardinality(dd.urls))
             IN  [d |-> [d1 EXCEPT !.ok = @ + 1,
                                   !.flushes = IF fl THEN @ + 1 ELSE @],
                  fs |-> IF fl THEN fd_flush(fs1) ELSE fs1]

\* The `finally` of scrape_worker up to its first await: every task is
\* cancelled and fd is flushed.
RunFinally(dd, fs) ==
    /\ task' = CancelAll(task)
    /\ d' = [dd EXCEPT !.pc = "closing", !.flushes = @ + 1]
    /\ dfile' = fd_flush(fs).file
    /\ dbuf' = fd_flush(fs).buf

\* main and the head of scrape_worker: the pending set is computed, the sink
\* is opened for append and one task per pending URL is created.
DStart ==
    /\ d.pc \in {"idle", "closed", "killed"}
    /\ \A u \in URLs : Ended(task[u])
    /\ PendingUrls # {}
    /\ Len(SplitLines(dfile, <<>>)) <= MaxDetailLines
    /\ d' = [IdleDetail EXCEPT !.pc = "running", !.urls = PendingUrls,
                               !.sem = CONCURRENCY, !.dfile0 = dfile]
    /\ task' = [u \in URLs |-> IF u \in PendingUrls THEN NewTask ELSE NoTask]
    /\ completed' = <<>>
    /\ UNCHANGED <<dfile, dbuf, wvars, rvars, redirect, call>>

\* `async with semaphore`: the task takes a slot.
TAcquire(u) ==
    /\ task[u].pc = "sem" /\ ~task[u].cancel
    /\ CanAcquire(d.sem)
    /\ d' = [d EXCEPT !.sem = @ - 1]
    /\ task' = [task EXCEPT ![u].pc = "new_page"]
    /\ UNCHANGED <<dfile, dbuf, completed, wvars, rvars, redirect, call>>

\* `page = await context.new_page()` returns a page.
TNewPage(u) ==
    /\ task[u].pc = "new_page" /\ ~task[u].cancel
    /\ task' = [task EXCEPT ![u].pc = "goto", ![u].page = TRUE]
    /\ UNCHANGED <<dfile, dbuf, d, completed, wvars, rvars, redirect, call>>

\* context.new_page() raises: the call stands before the try, so the
\* exception leaves the task, which gives its slot back.
TNewPageFail(u) ==
    /\ task[u].pc = "new_page" /\ ~task[u].cancel
    /\ task' = [task EXCEPT ![u].pc = "raised"]
    /\ d' = [d EXCEPT !.sem = @ + 1]
    /\ completed' = Append(completed, u)
    /\ UNCHANGED <<dfile, dbuf, wvars, rvars, redirect, call>>

\* One fetch attempt; a task that returns closes its page, gives its slot
\* back and is handed to as_completed.
TAttempt(u) ==
    /\ task[u].pc = "goto" /\ ~task[u].cancel
    /\ \E outcome \in Outcomes :
         LET t == AttemptStep(task[u], outcome)
         IN  /\ task' = [task EXCEPT ![u] = t]
             /\ IF Ended(t)
                THEN /\ d' = [d EXCEPT !.sem = @ + 1]
                     /\ completed' = Append(completed, u)
                ELSE UNCHANGED <<d, completed>>
    /\ UNCHANGED <<dfile, dbuf, wvars, rvars, redirect, call>>

\* The backoff sleep ends and the loop goes to the next attempt.
TWake(u) ==
    /\ task[u].pc = "sleep" /\ ~task[u].cancel
    /\ task' = [task EXCEPT ![u].pc = "goto", ![u].attempt = @ + 1]
    /\ UNCHANGED <<dfile, dbuf, d, completed, wvars, rvars, redirect, call>>

\* CancelledError reaches a cancelled task at its await: a task that holds a
\* page closes it in its finally, a task that holds a slot gives it back.
TCancelled(u) ==
    /\ task[u].cancel /\ ~Ended(task[u])
    /\ task' = [task EXCEPT ![u].pc = "cancelled", ![u].page = FALSE]
    /\ d' = [d EXCEPT !.sem = IF task[u].pc = "sem" THEN @ ELSE @ + 1]
    /\ UNCHANGED <<dfile, dbuf, completed, wvars, rvars, redirect, call>>

\* `result = await future` for the next ended task, the loop body, and, when
\* it was the last task or the task raised, the except and finally blocks.
DConsume ==
    /\ d.pc = "running"
    /\ Len(d.consumed) < Len(completed)
    /\ LET u  == completed[Len(d.consumed) + 1]
           fs == [file |-> dfile, buf |-> dbuf]
       IN  IF task[u].pc = "raised"
           THEN RunFinally([d EXCEPT !.raised = TRUE], fs)
           ELSE \E spill \in Spills :
                  LET r == ConsumeOne(d, fs, u, task[u].ret, spill)
                  IN  IF r.d.done = Cardinality(d.urls)
                      THEN RunFinally(r.d, r.fs)
                      ELSE /\ d' = r.d
                           /\ dfile' = r.fs.file
                           /\ dbuf' = r.fs.buf
                           /\ UNCHANGED task
    /\ UNCHANGED <<completed, wvars, rvars, redirect, call>>

\* A stop signal (operator interrupt) reaches scrape_worker while it waits
\* for the next result: the finally block runs.
DInterrupt ==
    /\ d.pc = "running"
    /\ RunFinally([d EXCEPT !.stopped = TRUE], [file |-> dfile, buf |-> dbuf])
    /\ UNCHANGED <<completed, wvars, rvars, redirect, call>>

\* context.close(), browser.close() and the `fd.close()` of main.
DExit ==
    /\ d.pc = "closing"
    /\ d' = [d EXCEPT !.pc = "closed"]
    /\ dfile' = fd_flush([file |-> dfile, buf |-> dbuf]).file
    /\ dbuf' = <<>>
    /\ UNCHANGED <<task, completed, wvars, rvars, redirect, call>>

\* The rows the walker runs have written, split over the two raw sinks.
ListedRows ==
    <<[url |-> "u1", msrp |-> TRUE], [url |-> "u2", msrp |-> TRUE],
      [url |-> "u3", msrp |-> TRUE]>>

\* The raw sinks the detail runs start from: the walker has listed every URL.
InitDetail ==
    /\ listing = [g \in Groups |-> <<>>]
    /\ pager = [g \in Groups |-> 1]
    /\ sink = [g \in Groups |->
                 IF g = "PG"
                 THEN SubSeq(ListedRows, 1, 2)
                 ELSE SubSeq(ListedRows, 3, Len(ListedRows))]
    /\ ckpt = [g \in Groups |-> None]
    /\ fresh = [g \in Groups |-> FALSE]
    /\ w = IdleRun
    /\ dfile = <<>>
    /\ dbuf = <<>>
    /\ d = IdleDetail
    /\ task = [u \in URLs |-> NoTask]
    /\ completed = <<>>
    /\ rfile = <<>>
    /\ rbuf = <<>>
    /\ wr = NoWriter
    /\ redirect = {}
    /\ call = NoCall

NextDetail ==
    \/ DStart
    \/ DConsume
    \/ DInterrupt
    \/ DExit
    \/ \E u \in URLs :
         \/ TAcquire(u)
         \/ TNewPage(u)
         \/ TNewPageFail(u)
         \/ TAttempt(u)
         \/ TWake(u)
         \/ TCancelled(u)

\* Runs of the detail fetcher over fixed raw sinks.
DetailSpec == InitDetail /\ [][NextDetail]_vars

\* Raw sinks that list u1 and u3, on a site that has moved the page of u3.
InitRefetch ==
    /\ listing = [g \in Groups |-> <<>>]
    /\ pager = [g \in Groups |-> 1]
    /\ sink = [g \in Groups |->
                 IF g = "PG"
                 THEN SubSeq(ListedRows, 1, 1)
                 ELSE SubSeq(ListedRows, 3, Len(ListedRows))]
    /\ ckpt = [g \in Groups |-> None]
    /\ fresh = [g \in Groups |-> FALSE]
    /\ w = IdleRun
    /\ dfile = <<>>
    /\ dbuf = <<>>
    /\ d = IdleDetail
    /\ task = [u \in URLs |-> NoTask]
    /\ completed = <<>>
    /\ rfile = <<>>
    /\ rbuf = <<>>
    /\ wr = NoWriter
    /\ redirect = {"u3"}
    /\ call = NoCall

\* Runs of the detail fetcher against a site that redirects.
RefetchSpec == InitRefetch /\ [][NextDetail]_vars

\* The event loop runs every ready task and every fetch ends within the
\* navigation timeout, so each task and the consuming loop keep moving.
FairDetailSpec ==
    /\ DetailSpec
    /\ WF_vars(DConsume)
    /\ WF_vars(DExit)
    /\ \A u \in URLs :
         WF_vars(TAcquire(u) \/ TNewPage(u) \/ TNewPageFail(u)
                 \/ TAttempt(u) \/ TWake(u) \/ TCancelled(u))

\* ------------------------------------------------------------------------
\* Claims about the detail fetcher
\* ------------------------------------------------------------------------

\* The pending URLs whose task returned a result of the given kinds.
Returned(kinds) == {u \in d.urls : task[u].pc = "done" /\ task[u].ret \in kinds}

\* The run's loop ended by itself: no stop signal and no task that raised.
RanToEnd == d.pc \in {"closing", "closed"} /\ ~d.stopped /\ ~d.raised

\* The state part of C6: no task makes more than MAX_RETRIES + 1 fetch
\* attempts, and a run whose loop ended by itself consumed one result per
\* pending URL, counting the successes as ok and the error results as err.
C6_Counts ==
    /\ \A u \in URLs : task[u].fetches <= MAX_RETRIES + 1
    /\ RanToEnd =>
          /\ \A u \in d.urls : task[u].pc = "done"
          /\ d.done = Cardinality(d.urls)
          /\ Len(d.consumed) = Cardinality(d.urls)
          /\ d.ok = Cardinality(Returned({"ok"}))
          /\ d.err = Cardinality(Returned(ErrorResults))

\* C6: a detail run over N pending URLs of which M end in an error result
\* terminates, having consumed N results, N-M successes and M errors, and no
\* task goes beyond MAX_RETRIES + 1 fetch attempts.
C6_PartialFailureTerminates ==
    /\ []C6_Counts
    /\ (d.pc = "running") ~> (d.pc = "closed")

\* C6 witness: a run over three URLs ended by itself with successes and
\* errors, one task having used its whole retry budget.
C6_Witness ==
    /\ d.pc = "closed" /\ RanToEnd
    /\ Cardinality(d.urls) = 3
    /\ d.ok >= 1 /\ d.err >= 1
    /\ \E u \in d.urls :
         task[u].ret = "parse_failed" /\ task[u].fetches = MAX_RETRIES + 1

\* The lines of the detail sink (file and buffer) written since the run's
\* start.
RunLines ==
    SubSeq(SplitLines(dfile \o dbuf, <<>>),
           Len(SplitLines(d.dfile0, <<>>)) + 1,
           Len(SplitLines(dfile \o dbuf, <<>>)))

\* The URL each of these lines starts with.
LineUrls == [i \in 1..Len(RunLines) |-> RunLines[i][1].url]

\* The "url" fields of the records of the tasks of the URLs us.
RecordUrls(us) == [i \in 1..Len(us) |-> RecordUrl(us[i])]

\* The URLs of the consumed results of the given kinds, in the order the
\* loop consumed them.
RECURSIVE ConsumedUrls(_, _)
ConsumedUrls(cs, kinds) ==
    IF cs = <<>> THEN <<>>
    ELSE IF Head(cs).ret \in kinds
         THEN <<Head(cs).url>> \o ConsumedUrls(Tail(cs), kinds)
         ELSE ConsumedUrls(Tail(cs), kinds)

C9_BoundedPagesAndClosed ==
    /\ Cardinality({u \in URLs : task[u].page}) <= CONCURRENCY
    /\ \A u \in URLs : Ended(task[u]) => ~task[u].page

\* C9 witness: CONCURRENCY tasks hold a page while another waits for a slot,
\* after an earlier run ended tasks that had opened pages.
C9_Witness ==
    /\ Cardinality({u \in URLs : task[u].page}) = CONCURRENCY
    /\ \E u \in URLs : task[u].pc = "sem"
    /\ d.sem = 0

\* C10: a task that got a non-success status has returned the error record
\* of that status at once: it ended on that attempt, with no fetch and no
\* backoff sleep after it, also when the status came on a retry.
C10_StatusNotRetried ==
    \A u \in URLs :
        task[u].status_at >= 0 =>
            /\ task[u].pc = "done"
            /\ task[u].ret = "http"
            /\ task[u].attempt = task[u].status_at
            /\ task[u].fetches = task[u].status_at + 1
            /\ Len(task[u].slept) = task[u].status_at
            /\ ~task[u].page

\* C10 witness: a status arrived on a retry after a transient failure and
\* the loop consumed the error record.
C10_Witness ==
    \E u \in URLs :
        /\ task[u].status_at >= 1
        /\ \E i \in 1..Len(d.consumed) :
               d.consumed[i] = [url |-> u, ret |-> "http"]

\* Number of attempts of a task that ended in a transient failure.
Transients(outs) == Cardinality({i \in 1..Len(outs) : outs[i] = "transient"})

\* C11: a task makes a further attempt only after a transient failure and
\* never more than MAX_RETRIES retries; after the failed attempt n (from 0)
\* it has slept 2^n seconds, each delay twice the one before, with no sleep
\* after the last attempt; when all MAX_RETRIES + 1 attempts failed
\* transiently the task has returned parse_failed.
C11_RetryWithBackoff ==
    \A u \in URLs :
        LET t == task[u]
        IN  /\ t.fetches = Len(t.outs)
            /\ t.fetches <= MAX_RETRIES + 1
            /\ \A i \in 1..(Len(t.outs) - 1) : t.outs[i] = "transient"
            /\ Len(t.slept) = Min(Transients(t.outs), MAX_RETRIES)
            /\ \A i \in 1..Len(t.slept) : t.slept[i] = 2 ^ (i - 1)
            /\ \A i \in 2..Len(t.slept) : t.slept[i] = 2 * t.slept[i - 1]
            /\ t.pc = "sleep" => t.attempt = Len(t.slept) - 1
            /\ t.pc = "goto" => t.attempt = Len(t.slept)
            /\ Transients(t.outs) = MAX_RETRIES + 1 =>
                   /\ t.pc = "done"
                   /\ t.ret = "parse_failed"
                   /\ ~t.page

\* C11 witness: a task used its whole retry budget, with all the delays
\* between its attempts, and the loop consumed its parse_failed result.
C11_Witness ==
    \E u \in URLs :
        /\ Transients(task[u].outs) = MAX_RETRIES + 1
        /\ Len(task[u].slept) = MAX_RETRIES
        /\ MAX_RETRIES >= 2
        /\ \E i \in 1..Len(d.consumed) :
               d.consumed[i] = [url |-> u, ret |-> "parse_failed"]

\* The task of URL u met a failure that is neither a timeout nor a
\* navigation error: context.new_page() raised, or an attempt ended in
\* another exception.
FailedOtherwise(u) ==
    \/ task[u].pc = "raised"
    \/ \E i \in 1..Len(task[u].outs) : task[u].outs[i] = "other"

\* C12: a task that meets a failure other than a timeout or navigation
\* error, at any step from opening its page to closing it, has returned the
\* scrape_exception result; no such failure ends the run, whose loop, unless
\* a stop signal arrives, consumes the result of every task.
C12_FailureStaysInTask ==
    /\ \A u \in URLs :
           FailedOtherwise(u) =>
               /\ task[u].pc = "done"
               /\ task[u].ret = "scrape_exception"
    /\ ~d.raised
    /\ (d.pc \in {"closing", "closed"} /\ ~d.stopped) =>
           /\ Len(d.consumed) = Cardinality(d.urls)
           /\ \A u \in d.urls : ~task[u].cancel

\* A stop signal (operator interrupt or run-level exception) has ended the
\* run's loop.
StopSignalled == d.pc \in {"closing", "closed"} /\ (d.stopped \/ d.raised)

\* The state part of C13: once the signal has arrived every task has ended
\* or is cancelled, the sink file holds what it held at the start followed by
\* the whole line of every record written before the signal, nothing is left
\* in the buffer, and the shutdown can complete whatever the tasks do.
C13_StopState ==
    StopSignalled =>
        /\ \A u \in URLs : Ended(task[u]) \/ task[u].cancel
        /\ dbuf = <<>>
        /\ SubSeq(dfile, 1, Len(d.dfile0)) = d.dfile0
        /\ \A i \in 1..Len(RunLines) : ValidLine(RunLines[i])
        /\ LineUrls = RecordUrls(ConsumedUrls(d.consumed, {"ok"}))
        /\ d.pc = "closing" => ENABLED DExit

\* The step part of C13: after the signal no task opens a page, starts a
\* fetch or hands over a result, and the sink file keeps its content.
C13_StopStep ==
    (StopSignalled /\ d'.pc \in {"closing", "closed"}) =>
        /\ \A u \in URLs :
               /\ task'[u].fetches = task[u].fetches
               /\ task'[u].page => task[u].page
               /\ task'[u].pc \in {task[u].pc, "cancelled"}
               /\ task'[u].ret = task[u].ret
        /\ completed' = completed
        /\ dfile' = dfile

\* C13: when a stop signal arrives during a detail run every unfinished task
\* is cancelled, no waiting task starts a page fetch afterwards, the
\* shutdown does not wait for the fetches in flight, and the sink is flushed
\* with every record written before the signal still in it.
C13_StopCancelsAndFlushes == []C13_StopState /\ [][C13_StopStep]_vars

\* C13 witness: the run was interrupted after a record was written, and has
\* exited while one cancelled task still held its page and another had been
\* waiting for a slot.
C13_Witness ==
    /\ d.pc = "closed" /\ d.stopped
    /\ Len(RunLines) >= 1
    /\ \E u, v \in d.urls :
           /\ task[u].cancel /\ ~Ended(task[u]) /\ task[u].page
           /\ task[v].cancel /\ task[v].fetches = 0 /\ ~task[v].page

\* ------------------------------------------------------------------------
\* Processes that die while they write: the sinks byte by byte
\* ------------------------------------------------------------------------

\* Most lines the raw sink holds when a write_rows call starts.
MaxSinkLines == 2

\* The process of the detail run is killed (SIGKILL, SIGTERM, power loss):
\* no handler runs, the tasks are gone and what fd buffered is lost.
DKill ==
    /\ d.pc \in {"running", "closing"}
    /\ d' = [d EXCEPT !.pc = "killed", !.lost = Len(dbuf)]
    /\ dbuf' = <<>>
    /\ task' = [u \in URLs |-> NoTask]
    /\ UNCHANGED <<dfile, completed, wvars, rvars, redirect, call>>

\* The page_rows a page loop can hand to write_rows.
RowSeqs ==
    UNION {[1..n -> {Row([url |-> u, title |-> TRUE, price |-> TRUE]) :
                        u \in URLs}] : n \in 0..PageSize}

\* main of a walker: `with path.open("a", encoding="utf-8") as fd`.
SinkOpen ==
    /\ wr.pc \in {"start", "closed", "saved", "killed"}
    /\ wr' = [NoWriter EXCEPT !.pc = "open"]
    /\ UNCHANGED <<rfile, rbuf, wvars, dvars, redirect, call>>

\* scrape_*_search_page calls write_rows(fd, rows).
WriteRowsStart ==
    /\ wr.pc = "open"
    /\ Len(rfile) <= 2 * MaxSinkLines
    /\ \E rows \in RowSeqs : wr' = [wr EXCEPT !.pc = "loop", !.rows = rows]
    /\ UNCHANGED <<rfile, rbuf, wvars, dvars, redirect, call>>

\* One pass of `for row in rows`: fd.write(json.dumps(row) + "\n").
WriteRowsWrite ==
    /\ wr.pc = "loop" /\ wr.rows # <<>>
    /\ \E spill \in Spills :
         LET fs == fd_write([file |-> rfile, buf |-> rbuf],
                            Line(Head(wr.rows).url), spill)
         IN  /\ rfile' = fs.file
             /\ rbuf' = fs.buf
    /\ wr' = [wr EXCEPT !.rows = Tail(@)]
    /\ UNCHANGED <<wvars, dvars, redirect, call>>

\* The end of write_rows: fd.flush() and return.
WriteRowsFlush ==
    /\ wr.pc = "loop" /\ wr.rows = <<>>
    /\ rfile' = fd_flush([file |-> rfile, buf |-> rbuf]).file
    /\ rbuf' = <<>>
    /\ wr' = [wr EXCEPT !.pc = "open"]
    /\ UNCHANGED <<wvars, dvars, redirect, call>>

\* The `with` block is left, at the end of the run or by an exception or an
\* operator interrupt: the file is closed, which flushes it.
SinkClose ==
    /\ wr.pc \in {"open", "loop"}
    /\ rfile' = fd_flush([file |-> rfile, buf |-> rbuf]).file
    /\ rbuf' = <<>>
    /\ wr' = [wr EXCEPT !.pc = "closed"]
    /\ UNCHANGED <<wvars, dvars, redirect, call>>

\* save_group_checkpoint up to the write: mkdir, and path.write_text opens
\* the file with mode "w", which empties it.  prev remembers what a load
\* gave before the save.
SaveOpen ==
    /\ wr.pc = "closed"
    /\ \E u \in URLs :
         wr' = [wr EXCEPT !.pc = "saving", !.latest = u,
                          !.prev = load_group_checkpoint(ckpt[wr.g])]
    /\ ckpt' = [ckpt EXCEPT ![wr.g] = NoUrl]
    /\ UNCHANGED <<listing, pager, sink, fresh, w, dvars, rvars_file, redirect, call>>

\* The rest of path.write_text: the text is written and the file closed.
SaveWrite ==
    /\ wr.pc = "saving"
    /\ ckpt' = [ckpt EXCEPT ![wr.g] = wr.latest]
    /\ wr' = [wr EXCEPT !.pc = "saved"]
    /\ UNCHANGED <<listing, pager, sink, fresh, w, dvars, rvars_file, redirect, call>>

\* The walker process is killed: what its files buffered is lost.
SinkKill ==
    /\ wr.pc \in {"open", "loop", "saving"}
    /\ rbuf' = <<>>
    /\ wr' = [wr EXCEPT !.pc = "killed", !.lost = Len(rbuf)]
    /\ UNCHANGED <<rfile, wvars, dvars, redirect, call>>

\* Either the detail fetcher or a walker is followed byte by byte.
InitSink ==
    /\ listing = [g \in Groups |-> <<>>]
    /\ pager = [g \in Groups |-> 1]
    /\ sink = [g \in Groups |->
                 IF g = "PG"
                 THEN SubSeq(ListedRows, 1, 2)
                 ELSE SubSeq(ListedRows, 3, Len(ListedRows))]
    /\ ckpt = [g \in Groups |-> None]
    /\ fresh = [g \in Groups |-> FALSE]
    /\ w = IdleRun
    /\ dfile = <<>>
    /\ dbuf = <<>>
    /\ d = IdleDetail
    /\ task = [u \in URLs |-> NoTask]
    /\ completed = <<>>
    /\ rfile = <<>>
    /\ rbuf = <<>>
    /\ wr \in {NoWriter, [NoWriter EXCEPT !.pc = "start"]}
    /\ redirect = {}
    /\ call = NoCall

NextSink ==
    \/ wr.pc = "off" /\ NextDetail
    \/ wr.pc = "off" /\ DKill
    \/ SinkOpen
    \/ WriteRowsStart
    \/ WriteRowsWrite
    \/ WriteRowsFlush
    \/ SinkClose
    \/ SaveOpen
    \/ SaveWrite
    \/ SinkKill

\* Runs of the detail fetcher, or of a walker's sink writes, that can be
\* killed at any point.
SinkSpec == InitSink /\ [][NextSink]_vars

\* The bytes consist of complete newline-terminated JSON lines only.
CompleteLines(bytes) ==
    \A i \in 1..Len(SplitLines(bytes, <<>>)) :
        LET l == SplitLines(bytes, <<>>)[i]
        IN  ValidLine(l) /\ l[1].url = l[2].url

\* C14: at every point of a walker run and of a detail run, a kill included,
\* the bytes that have reached the raw sink file and the detail sink file
\* are complete newline-terminated JSON lines: no record is cut.
C14_NoPartialRecordOnFile ==
    /\ CompleteLines(dfile)
    /\ CompleteLines(rfile)

\* C14 witness: a walker was killed inside write_rows, with a row still to
\* write and a written row lost in the buffer, after the buffer had written
\* out an earlier row of the same call.
C14_Witness ==
    /\ wr.pc = "killed"
    /\ wr.rows # <<>>
    /\ wr.lost > 0
    /\ rfile # <<>>

\* The "url" of each line of the detail sink, file and buffer.
SinkUrls ==
    [i \in 1..Len(SplitLines(dfile \o dbuf, <<>>)) |->
        SplitLines(dfile \o dbuf, <<>>)[i][1].url]

\* C15: over any sequence of detail runs the detail sink holds at most one
\* record per URL; a run fetches only URLs of the listing sinks that the
\* detail sink did not hold at its start; the record appended for a fetched
\* URL carries that URL, and once the run has ended the URL is not pending.
C15_OneRecordPerUrl ==
    /\ \A i, j \in 1..Len(SinkUrls) : SinkUrls[i] = SinkUrls[j] => i = j
    /\ d.pc \in {"running", "closing", "closed"} =>
           /\ d.urls \subseteq UNION {read_urls_jsonl(sink[g]) : g \in Groups}
           /\ d.urls \cap read_data_jsonl(d.dfile0) = {}
           /\ LineUrls = ConsumedUrls(d.consumed, {"ok"})
    /\ d.pc = "closed" =>
           \A i \in 1..Len(d.consumed) :
               d.consumed[i].ret = "ok" => d.consumed[i].url \notin PendingUrls

\* C16: a load_group_checkpoint that follows a save, whether the save
\* completed or the process was killed in the middle of it, gives the
\* previous URL or the new URL, never an absent, empty or cut value.
C16_AtomicCheckpointSave ==
    (wr.pc \in {"saved", "killed"} /\ wr.latest # None) =>
        load_group_checkpoint(ckpt[wr.g]) \in {wr.prev, wr.latest}

\* ------------------------------------------------------------------------
\* Pure functions: read_urls_jsonl / read_data_jsonl on the text of a sink
\* ------------------------------------------------------------------------

\* Every variable but call, at rest: no run of any script is in progress.
AtRest ==
    /\ listing = [g \in Groups |-> <<>>]
    /\ pager = [g \in Groups |-> 1]
    /\ sink = [g \in Groups |-> <<>>]
    /\ ckpt = [g \in Groups |-> None]
    /\ fresh = [g \in Groups |-> FALSE]
    /\ w = IdleRun
    /\ dfile = <<>>
    /\ dbuf = <<>>
    /\ d = IdleDetail
    /\ task = [u \in URLs |-> NoTask]
    /\ completed = <<>>
    /\ rfile = <<>>
    /\ rbuf = <<>>
    /\ wr = NoWriter
    /\ redirect = {}

restvars ==
    <<listing, pager, sink, ckpt, fresh, w, dfile, dbuf, d, task, completed,
      rfile, rbuf, wr, redirect>>

\* Longest text of a "url" value.
MaxText == 2

\* Most lines of a sink file that is read back.
MaxFileLines == 2

\* The characters of a text: white space and two others.
Chars == {"sp", "a", "b"}

\* The texts of at most MaxText characters.
Texts == UNION {[1..n -> Chars] : n \in 0..MaxText}

\* str.strip(): leading white space is dropped, then trailing white space.
RECURSIVE LStrip(_)
LStrip(t) == IF t # <<>> /\ Head(t) = "sp" THEN LStrip(Tail(t)) ELSE t

RECURSIVE RStrip(_)
RStrip(t) ==
    IF t # <<>> /\ t[Len(t)] = "sp" THEN RStrip(SubSeq(t, 1, Len(t) - 1))
    ELSE t

Strip(t) == RStrip(LStrip(t))

\* What row.get("url") can be for a JSON object: nothing (None), a value
\* that is not a string, or a string.
UrlValues ==
    {[type |-> "absent", text |-> <<>>], [type |-> "number", text |-> <<>>]}
    \cup {[type |-> "str", text |-> t] : t \in Texts}

\* The lines of a sink file by what json.loads makes of them: white space
\* only, not JSON, a JSON value that is not an object, an object.
FileLines ==
    {[kind |-> k, url |-> [type |-> "absent", text |-> <<>>]] :
        k \in {"blank", "invalid", "value"}}
    \cup {[kind |-> "object", url |-> v] : v \in UrlValues}

\* The files: none at the path, or up to MaxFileLines lines.
Files ==
    {[exists |-> FALSE, lines |-> <<>>]}
    \cup {[exists |-> TRUE, lines |-> ls] :
            ls \in UNION {[1..n -> FileLines] : n \in 0..MaxFileLines}}

\* `for line in fd` of read_urls_jsonl and read_data_jsonl: blank lines and
\* JSONDecodeError are skipped; row.get is called on whatever json.loads
\* returned, and raises AttributeError when that is not a dict.
RECURSIVE ReadLoop(_, _)
ReadLoop(lines, urls) ==
    IF lines = <<>> THEN [raised |-> FALSE, urls |-> urls]
    ELSE
      LET line == Head(lines)
      IN  CASE line.kind = "blank"   -> ReadLoop(Tail(lines), urls)
            [] line.kind = "invalid" -> ReadLoop(Tail(lines), urls)
            [] line.kind = "value"   -> [raised |-> TRUE, urls |-> {}]
            [] line.kind = "object"  ->
                 IF line.url.type = "str" /\ Strip(line.url.text) # <<>>
                 THEN ReadLoop(Tail(lines),
                               urls \cup {Strip(line.url.text)})
                 ELSE ReadLoop(Tail(lines), urls)

\* read_urls_jsonl(path) / read_data_jsonl(path) on the text of the file.
read_urls_path(file) ==
    IF ~file.exists THEN [raised |-> FALSE, urls |-> {}]
    ELSE ReadLoop(file.lines, {})

InitRead ==
    /\ AtRest
    /\ call \in {[NoCall EXCEPT !.fn = "read_urls_jsonl", !.arg = f] :
                   f \in Files}

\* The call returns or raises.
ReadCall ==
    /\ call.fn = "read_urls_jsonl" /\ ~call.done
    /\ call' = [call EXCEPT !.res = read_urls_path(call.arg), !.done = TRUE]
    /\ UNCHANGED restvars

\* Calls of read_urls_jsonl on every small file.
ReadSpec == InitRead /\ [][ReadCall]_vars

\* The line is a record with a non-empty string url.
WellFormed(line) ==
    /\ line.kind = "object"
    /\ line.url.type = "str"
    /\ \E i \in 1..Len(line.url.text) : line.url.text[i] # "sp"

\* C17: loading the seen set never fails on bad content: blank lines, lines
\* that are not JSON, JSON values that are not objects and objects without a
\* non-empty string url are skipped, the result is exactly the set of the
\* trimmed url values of the other lines, and a missing file gives the empty
\* set.
C17_ReadSkipsBadLines ==
    (call.fn = "read_urls_jsonl" /\ call.done) =>
        /\ ~call.res.raised
        /\ call.res.urls =
              {Strip(call.arg.lines[i].url.text) :
                 i \in {j \in 1..Len(call.arg.lines) :
                           WellFormed(call.arg.lines[j])}}
        /\ ~call.arg.exists => call.res.urls = {}

\* ------------------------------------------------------------------------
\* scrape.py: the walker without checkpoint and seen set
\* ------------------------------------------------------------------------

\* `path.open("w", encoding="utf-8")` of scrape.py: the content is dropped.
OpenSinkW(rows) == <<>>

\* main of scrape.py up to scrape_worker: the sink of the grade is opened
\* for writing; the walk starts with `seen = set()` and has no checkpoint.
LStart(g) ==
    /\ Stopped(w.pc)
    /\ Site(g) = "hlj"
    /\ sink' = [sink EXCEPT ![g] = OpenSinkW(@)]
    /\ w' = [IdleRun EXCEPT
               !.pc = "goto", !.g = g, !.script = "scrape",
               !.sink0 = sink[g], !.ckpt0 = ckpt[g]]
    /\ fresh' = [fresh EXCEPT ![g] = FALSE]
    /\ UNCHANGED <<listing, pager, ckpt, dvars, rvars, redirect, call>>

\* The end of main of scrape.py: nothing is saved.
LDone(g) ==
    /\ w.pc = "save" /\ w.g = g /\ w.script = "scrape"
    /\ w' = [w EXCEPT !.pc = "done"]
    /\ UNCHANGED <<listing, pager, sink, ckpt, fresh, dvars, rvars, redirect,
                   call>>

InitLegacy == Init /\ w.g = "PG"

\* Runs of scrape.py and of scrape_hlj.py for one grade, in any order.
NextLegacy ==
    \E g \in Groups :
        /\ g = w.g
        /\ \/ SiteAdd(g)
           \/ WStart(g)
           \/ LStart(g)
           \/ WGoto(g)
           \/ WPage(g)
           \/ WNext(g)
           \/ WFail(g)
           \/ WSave(g)
           \/ LDone(g)

LegacySpec == InitLegacy /\ [][NextLegacy]_vars

\* s is a prefix of t.
IsPrefix(s, t) == Len(s) <= Len(t) /\ SubSeq(t, 1, Len(s)) = s

\* C18: the listing sink is append-only: at every point of a run of any
\* listing scraper the sink starts with the content it had at the start of
\* the run.
C18_SinkAppendOnly == w.pc # "idle" => IsPrefix(w.sink0, sink[w.g])

\* ------------------------------------------------------------------------
\* Pure functions: to_pre_tax_yen of scrape_bandai_hobby.py
\* ------------------------------------------------------------------------

\* Largest tax-inclusive amount tried.
MaxYen == 12000

\* TAX_MULTIPLIER = Decimal("1.10"), in hundredths.
TAX_MULTIPLIER == 110

\* A quotient cut off at the decimal point.
QuantizeDown(num, den) == num \div den

\* `.quantize(Decimal("1"), rounding=ROUND_HALF_UP)` of the quotient num/den
\* of two positive integers: the nearest integer, a half going up.  (The
\* quotient of an amount by 1.10 is never closer than 1/22 to a half, so the
\* 28 digits Decimal keeps of it decide the same way as the exact value.)
Quantize(num, den) == (2 * num + den) \div (2 * den)

\* The optional numbers the function takes and returns.
NoNumber == [none |-> TRUE, val |-> 0]

Number(n) == [none |-> FALSE, val |-> n]

\* to_pre_tax_yen: None stays None, otherwise
\* int((Decimal(str(price)) / TAX_MULTIPLIER).quantize(1, ROUND_HALF_UP)).
to_pre_tax_yen(price_including_tax) ==
    IF price_including_tax.none THEN NoNumber
    ELSE Number(Quantize(price_including_tax.val * 100, TAX_MULTIPLIER))

InitTax ==
    /\ AtRest
    /\ call \in {[NoCall EXCEPT !.fn = "to_pre_tax_yen", !.arg = a] :
                   a \in {NoNumber} \cup {Number(x) : x \in 0..MaxYen}}

\* The call returns.
TaxCall ==
    /\ call.fn = "to_pre_tax_yen" /\ ~call.done
    /\ call' = [call EXCEPT !.res = to_pre_tax_yen(call.arg), !.done = TRUE]
    /\ UNCHANGED restvars

\* Calls of to_pre_tax_yen on every amount up to MaxYen and on None.
TaxSpec == InitTax /\ [][TaxCall]_vars

\* C19: for a non-negative integer amount x, to_pre_tax_yen returns the
\* integer r nearest to x / 1.10, a tie going up: 20x - 11 < 22r <= 20x + 11
\* (11000 gives 10000, 1101 gives 1001); None gives None.
C19_PreTaxRoundsHalfUp ==
    (call.fn = "to_pre_tax_yen" /\ call.done) =>
        LET x == call.arg.val
            r == call.res.val
        IN  /\ call.arg.none <=> call.res.none
            /\ ~call.arg.none =>
                   /\ 20 * x - 11 < 22 * r
                   /\ 22 * r <= 20 * x + 11
            /\ (~call.arg.none /\ x = 11000) => r = 10000
            /\ (~call.arg.none /\ x = 1101) => r = 1001

\* C19 witness: the call with 1101 has returned, and 1101 / 1.10 lies above
\* the half (1000.909...), so the result is the integer above it.
C19_Witness ==
    /\ call.fn = "to_pre_tax_yen" /\ call.done
    /\ ~call.arg.none /\ call.arg.val = 1101
    /\ call.res.val = 1001
    /\ 1101 <= MaxYen

\* ------------------------------------------------------------------------
\* Pure functions: the price parsers
\* ------------------------------------------------------------------------

\* Longest price text tried, the two texts of the examples apart.
MaxPriceLen == 3

\* ASCII digits and full-width digits, by name.
AsciiDigits == {"d0", "d1", "d2", "d3", "d4", "d5", "d6", "d7", "d8", "d9"}

FullDigits == {"f0", "f1", "f2", "f3", "f4", "f5", "f6", "f7", "f8", "f9"}

\* The value of a digit of either kind.
DigitVal(c) ==
    CASE c \in {"d0", "f0"} -> 0 [] c \in {"d1", "f1"} -> 1
      [] c \in {"d2", "f2"} -> 2 [] c \in {"d3", "f3"} -> 3
      [] c \in {"d4", "f4"} -> 4 [] c \in {"d5", "f5"} -> 5
      [] c \in {"d6", "f6"} -> 6 [] c \in {"d7", "f7"} -> 7
      [] c \in {"d8", "f8"} -> 8 [] c \in {"d9", "f9"} -> 9

\* The ASCII digit of a value.
AsciiOf(n) == CHOOSE c \in AsciiDigits : DigitVal(c) = n

\* The characters price texts are built from: the yen sign, the character
\* that the yen sign is preceded by in the pattern of the detail script,
\* the yen character, a comma, a space, digits of both kinds.
PriceChars == {"yen", "Acirc", "en", "comma", "sp", "d1", "d2", "f1"}

\* "\u00a53,960" and full-width "120" followed by the yen character.
ExampleYen == <<"yen", "d3", "comma", "d9", "d6", "d0">>

ExampleFullWidth == <<"f1", "f2", "f0", "en">>

PriceTexts ==
    UNION {[1..n -> PriceChars] : n \in 0..MaxPriceLen}
    \cup {ExampleYen, ExampleFullWidth}

\* The number a text of digits denotes.
RECURSIVE DigitsValue(_)
DigitsValue(t) ==
    IF t = <<>> THEN 0
    ELSE 10 * DigitsValue(SubSeq(t, 1, Len(t) - 1)) + DigitVal(t[Len(t)])

\* The text without the characters of a set.
RECURSIVE Remove(_, _)
Remove(t, cs) ==
    IF t = <<>> THEN <<>>
    ELSE IF Head(t) \in cs THEN Remove(Tail(t), cs)
    ELSE <<Head(t)>> \o Remove(Tail(t), cs)

\* float(text) for a text of these characters: digits of either kind give
\* their number, anything else (the empty text too) is a ValueError.
FloatOk(t) ==
    t # <<>> /\ \A i \in 1..Len(t) : t[i] \in AsciiDigits \cup FullDigits

\* The results: a number, None, or an exception that leaves the function.
Raised == [none |-> TRUE, val |-> 0, raised |-> TRUE]

NoPrice == [none |-> TRUE, val |-> 0, raised |-> FALSE]

Price(n) == [none |-> FALSE, val |-> n, raised |-> FALSE]

\* parse_price of scrape.py and scrape_hlj.py:
\* float(REGX_YEN_STR.sub("", text or "")) with REGX_YEN_STR matching the
\* yen sign, white space and commas; ValueError gives None.
parse_price_hlj(text) ==
    LET t == Remove(text, {"yen", "sp", "comma"})
    IN  IF FloatOk(t) THEN Price(DigitsValue(t)) ELSE NoPrice

\* re.sub(REGX_YEN_STR, "", price_text) of scrape_hlj_details.py, whose
\* pattern names the yen sign only after another character.
RECURSIVE SubDetail(_)
SubDetail(t) ==
    IF t = <<>> THEN <<>>
    ELSE IF Len(t) >= 2 /\ t[1] = "Acirc" /\ t[2] = "yen"
         THEN SubDetail(SubSeq(t, 3, Len(t)))
    ELSE IF Head(t) \in {"sp", "comma"} THEN SubDetail(Tail(t))
    ELSE <<Head(t)>> \o SubDetail(Tail(t))

\* extract_hlj_details_price: float(...) and the assert, neither guarded.
extract_hlj_details_price(text) ==
    LET t == SubDetail(text)
    IN  IF ~FloatOk(t) THEN Raised
        ELSE IF DigitsValue(t) >= 100000 THEN Raised
        ELSE Price(DigitsValue(t))

\* text.translate(FULLWIDTH_TO_ASCII) on these characters.
Translate(t) ==
    [i \in 1..Len(t) |->
        IF t[i] \in FullDigits THEN AsciiOf(DigitVal(t[i])) ELSE t[i]]

\* Length of the longest prefix of digits and commas.
RECURSIVE RunLen(_)
RunLen(t) ==
    IF t # <<>> /\ Head(t) \in AsciiDigits \cup {"comma"}
    THEN 1 + RunLen(Tail(t))
    ELSE 0

\* `\s*(?=...)` of REGX_PRICE_VALUE: optional white space, then the yen
\* character.
Tagged(rest) == LStrip(rest) # <<>> /\ Head(LStrip(rest)) = "en"

\* The numbers REGX_ANY_NUMBER finds in a text, left to right, each with
\* whether REGX_PRICE_VALUE matches it too.
RECURSIVE Numbers(_)
Numbers(t) ==
    IF t = <<>> THEN <<>>
    ELSE IF Head(t) \in AsciiDigits
         THEN LET n == RunLen(t)
                  rest == SubSeq(t, n + 1, Len(t))
              IN  <<[val |-> DigitsValue(Remove(SubSeq(t, 1, n), {"comma"})),
                     tagged |-> Tagged(rest)]>> \o Numbers(rest)
    ELSE Numbers(Tail(t))

\* max(...) over the values of a non-empty sequence of numbers.
MaxVal(ns) ==
    CHOOSE v \in {ns[i].val : i \in 1..Len(ns)} :
        \A i \in 1..Len(ns) : ns[i].val <= v

\* The tagged numbers of a sequence.
RECURSIVE TaggedOnly(_)
TaggedOnly(ns) ==
    IF ns = <<>> THEN <<>>
    ELSE IF Head(ns).tagged THEN <<Head(ns)>> \o TaggedOnly(Tail(ns))
    ELSE TaggedOnly(Tail(ns))

\* parse_price of scrape_bandai_hobby.py: the largest number followed by
\* the yen character, else the largest number, else None.
parse_price_bandai(text) ==
    LET ns == Numbers(Translate(text))
    IN  IF TaggedOnly(ns) # <<>> THEN Price(MaxVal(TaggedOnly(ns)))
        ELSE IF ns # <<>> THEN Price(MaxVal(ns))
        ELSE NoPrice

\* The four price parsers by script.
Parsers == {"scrape", "hlj", "bandai", "details"}

ParsePrice(parser, text) ==
    CASE parser \in {"scrape", "hlj"} -> parse_price_hlj(text)
      [] parser = "bandai" -> parse_price_bandai(text)
      [] parser = "details" -> extract_hlj_details_price(text)

InitPrice ==
    /\ AtRest
    /\ call \in {[NoCall EXCEPT !.fn = "parse_price",
                                !.arg = [parser |-> p, text |-> t]] :
                   p \in Parsers, t \in PriceTexts}

\* The call returns or raises.
PriceCall ==
    /\ call.fn = "parse_price" /\ ~call.done
    /\ call' = [call EXCEPT
                  !.res = ParsePrice(call.arg.parser, call.arg.text),
                  !.done = TRUE]
    /\ UNCHANGED restvars

\* Calls of every price parser on every short text and on the examples.
PriceSpec == InitPrice /\ [][PriceCall]_vars

\* A comma-grouped integer: ASCII digits and commas, a digit first and last.
Grouped(t) ==
    /\ t # <<>>
    /\ \A i \in 1..Len(t) : t[i] \in AsciiDigits \cup {"comma"}
    /\ t[1] \in AsciiDigits /\ t[Len(t)] \in AsciiDigits

\* C20: every price parser strips the currency marker and the grouping
\* separators: the yen sign followed by a comma-grouped integer gives that
\* integer (3960 for the example), full-width digits followed by the yen
\* character give the number in ASCII (120), and the empty text gives no
\* value without raising.
C20_PriceParsersStrip ==
    (call.fn = "parse_price" /\ call.done) =>
        LET t == call.arg.text
            body == SubSeq(t, 1, Len(t) - 1)
        IN  /\ (t # <<>> /\ Head(t) = "yen" /\ Grouped(Tail(t))) =>
                   call.res = Price(DigitsValue(Remove(Tail(t), {"comma"})))
            /\ t = ExampleYen => call.res = Price(3960)
            /\ (Len(t) >= 2 /\ t[Len(t)] = "en"
                    /\ \A i \in 1..Len(body) : body[i] \in FullDigits) =>
                   call.res = Price(DigitsValue(body))
            /\ t = ExampleFullWidth => call.res = Price(120)
            /\ t = <<>> => call.res = NoPrice

\* ------------------------------------------------------------------------
\* Pure functions: the release-date parsers
\* ------------------------------------------------------------------------

\* Largest month and day number tried in a date text.
MaxMonth == 13

MaxDay == 32

\* The years tried: a leap year and a common year.
Years == {2024, 2025}

\* The date texts: empty, "<y>年<m>月", "<y>年<m>月<d>日", "<y>/<mm>/<dd>" and
\* "<m>月" without a year.
DateTexts ==
    {[grammar |-> "empty", y |-> 0, m |-> 0, d |-> 0]}
    \cup {[grammar |-> "jp_m", y |-> 0, m |-> m, d |-> 0] : m \in 0..MaxMonth}
    \cup {[grammar |-> "jp_ym", y |-> y, m |-> m, d |-> 0] :
             y \in Years, m \in 0..MaxMonth}
    \cup {[grammar |-> g, y |-> y, m |-> m, d |-> day] :
             g \in {"jp_ymd", "slash"}, y \in Years, m \in 0..MaxMonth,
             day \in 0..MaxDay}

\* "2025年3月", "2025/03/15" and "13月".
ExampleYearMonth == [grammar |-> "jp_ym", y |-> 2025, m |-> 3, d |-> 0]

ExampleSlash == [grammar |-> "slash", y |-> 2025, m |-> 3, d |-> 15]

ExampleMonth13 == [grammar |-> "jp_m", y |-> 0, m |-> 13, d |-> 0]

\* `{n:02d}` and `{n:04d}`.
Pad2(n) == <<n \div 10, n % 10>>

Pad4(n) == <<n \div 1000, (n \div 100) % 10, (n \div 10) % 10, n % 10>>

\* f"{year:04d}-{month:02d}-{day:02d}T00:00:00Z", and the same text from
\* strftime("%Y-%m-%dT00:00:00Z").
FormatDate(y, m, day) ==
    Pad4(y) \o <<"-">> \o Pad2(m) \o <<"-">> \o Pad2(day) \o <<"T00:00:00Z">>

\* The results: None, a formatted date, or the input text handed back.
NoDate == [kind |-> "none", val |-> <<>>]

Date(y, m, day) == [kind |-> "date", val |-> FormatDate(y, m, day)]

SameText == [kind |-> "text", val |-> <<>>]

\* REGX_RELEASE_DATE_JP.search finds year, month and optional day.
MatchesJP(text) == text.grammar \in {"jp_ym", "jp_ymd"}

\* parse_release_date of scrape_bandai_hobby.py: None for an empty text, the
\* formatted date when the pattern matches and month and day are in range
\* (the day defaults to 1), else `return normalized_text`.
parse_release_date(text) ==
    IF text.grammar = "empty" THEN NoDate
    ELSE IF MatchesJP(text)
         THEN LET day == IF text.grammar = "jp_ym" THEN 1 ELSE text.d
              IN  IF 1 <= text.m /\ text.m <= 12 /\ 1 <= day /\ day <= 31
                  THEN Date(text.y, text.m, day)
                  ELSE SameText
    ELSE SameText

\* The days of a month of the calendar datetime uses.
DaysIn(y, m) ==
    CASE m \in {4, 6, 9, 11} -> 30
      [] m = 2 -> IF y % 4 = 0 /\ (y % 100 # 0 \/ y % 400 = 0) THEN 29 ELSE 28
      [] OTHER -> 31

\* parse_rfc3339 of scrape_hlj_details.py: None for no text, the formatted
\* date when datetime.strptime(text, "%Y/%m/%d") accepts it, None on its
\* ValueError.
parse_rfc3339(date_text) ==
    IF date_text.grammar = "empty" THEN NoDate
    ELSE IF /\ date_text.grammar = "slash"
            /\ 1 <= date_text.m /\ date_text.m <= 12
            /\ 1 <= date_text.d
            /\ date_text.d <= DaysIn(date_text.y, date_text.m)
         THEN Date(date_text.y, date_text.m, date_text.d)
    ELSE NoDate

\* The two release-date parsers by script.
DateParsers == {"bandai", "details"}

ParseDate(parser, text) ==
    IF parser = "bandai" THEN parse_release_date(text)
    ELSE parse_rfc3339(text)

InitDate ==
    /\ AtRest
    /\ call \in {[NoCall EXCEPT !.fn = "parse_release_date",
                                !.arg = [parser |-> p, text |-> t]] :
                   p \in DateParsers, t \in DateTexts}

\* The call returns.
DateCall ==
    /\ call.fn = "parse_release_date" /\ ~call.done
    /\ call' = [call EXCEPT
                  !.res = ParseDate(call.arg.parser, call.arg.text),
                  !.done = TRUE]
    /\ UNCHANGED restvars

\* Calls of both release-date parsers on every date text.
DateSpec == InitDate /\ [][DateCall]_vars

\* C21: the release-date parser gives the first day of the month for a
\* year-month text in the Japanese grammar (parse_release_date), that day
\* for a year-month-day text in the Japanese grammar (parse_release_date) or
\* in the YYYY/MM/DD grammar (parse_rfc3339), as YYYY-MM-DDT00:00:00Z, and
\* no value when the month is outside 1..12, as for "13月", or the day is
\* outside 1..31.
C21_DateParser ==
    (call.fn = "parse_release_date" /\ call.done) =>
        LET t == call.arg.text
            p == call.arg.parser
            real == t.m \in 1..12 /\ t.d \in 1..DaysIn(t.y, t.m)
        IN  /\ (p = "bandai" /\ t.grammar = "jp_ym" /\ t.m \in 1..12) =>
                   call.res = Date(t.y, t.m, 1)
            /\ (p = "bandai" /\ t.grammar = "jp_ymd" /\ real) =>
                   call.res = Date(t.y, t.m, t.d)
            /\ (p = "details" /\ t.grammar = "slash" /\ real) =>
                   call.res = Date(t.y, t.m, t.d)
            /\ (p = "bandai" /\ t = ExampleYearMonth) =>
                   call.res.val =
                       <<2, 0, 2, 5, "-", 0, 3, "-", 0, 1, "T00:00:00Z">>
            /\ (p = "details" /\ t = ExampleSlash) =>
                   call.res.val =
                       <<2, 0, 2, 5, "-", 0, 3, "-", 1, 5, "T00:00:00Z">>
            /\ t = ExampleMonth13 => call.res = NoDate
            /\ (t.grammar # "empty" /\ t.m \notin 1..12) =>
                   call.res = NoDate
            /\ (t.grammar \in {"jp_ymd", "slash"} /\ t.d \notin 1..31) =>
                   call.res = NoDate

\* ------------------------------------------------------------------------
\* Pure functions: the extraction of a detail page
\* ------------------------------------------------------------------------

\* What a line of the product-details list can be for one label: no line
\* starts with the label ("absent"), the line matches the label's pattern
\* ("ok"), or it starts with the label and does not match ("bad").
LineKinds == {"absent", "ok", "bad"}

\* The "Release Date" line: absent, not matching REGX_RELEASE_DATE, or
\* matching it with a date or with digits that are no date.
ReleaseLines ==
    {[kind |-> "absent", date |-> ExampleSlash],
     [kind |-> "bad", date |-> ExampleSlash],
     [kind |-> "ok", date |-> ExampleSlash],
     [kind |-> "ok", date |-> [ExampleSlash EXCEPT !.m = 13]]}

\* The text of the price node: a number, a text without a number, nothing.
DetailPriceTexts == {<<"d1", "d2">>, <<"en">>, <<>>}

\* The detail pages: the price text and the four lines.
DetailPages ==
    [price : DetailPriceTexts, release : ReleaseLines, series : LineKinds,
     type : LineKinds, size : LineKinds]

\* `m = REGX.search(item_text); m.group(1)` (`m.groups()` for the size): a
\* value when the pattern matched, AttributeError when search gave None.
GroupOf(kind) == IF kind = "ok" THEN "value" ELSE "raise"

\* extract_hlj_details_section: each field starts as None; a line that
\* starts with a label is searched and the match object is used as it is.
extract_hlj_details_section(page) ==
    LET bad == {page.release.kind, page.series, page.type, page.size}
    IN  IF "bad" \in bad
        THEN [raised |-> TRUE, releaseDate |-> NoDate, series |-> None,
              type |-> None, size |-> None]
        ELSE [raised |-> FALSE,
              releaseDate |-> IF page.release.kind = "ok"
                              THEN parse_rfc3339(page.release.date)
                              ELSE NoDate,
              series |-> IF page.series = "ok"
                         THEN GroupOf(page.series) ELSE None,
              type |-> IF page.type = "ok" THEN GroupOf(page.type) ELSE None,
              size |-> IF page.size = "ok" THEN GroupOf(page.size) ELSE None]

\* No record: an exception left extract_hlj_details_page.
NoRecord ==
    [raised |-> TRUE, msrpJPY |-> NoPrice, releaseDate |-> NoDate,
     series |-> None, type |-> None, size |-> None]

\* extract_hlj_details_page: title, price and section, merged into one
\* record; an exception of any of them leaves the function.
extract_hlj_details_page(page) ==
    LET price_data == extract_hlj_details_price(page.price)
        details == extract_hlj_details_section(page)
    IN  IF price_data.raised \/ details.raised THEN NoRecord
        ELSE [raised |-> FALSE, msrpJPY |-> price_data,
              releaseDate |-> details.releaseDate, series |-> details.series,
              type |-> details.type, size |-> details.size]

\* What scrape_one_url returns for the page: the record, or the
\* scrape_exception result of `except Exception`.
ResultOf(rec) == IF rec.raised THEN "scrape_exception" ELSE "ok"

InitExtract ==
    /\ AtRest
    /\ call \in {[NoCall EXCEPT !.fn = "extract_hlj_details_page",
                                !.arg = pg] : pg \in DetailPages}

\* The call returns or raises.
ExtractCall ==
    /\ call.fn = "extract_hlj_details_page" /\ ~call.done
    /\ call' = [call EXCEPT !.res = extract_hlj_details_page(call.arg),
                            !.done = TRUE]
    /\ UNCHANGED restvars

\* The extraction of every detail page.
ExtractSpec == InitExtract /\ [][ExtractCall]_vars

\* C22: no normalization step raises on malformed input: when the price,
\* release-date, series, item-type or size/weight text of a detail page
\* does not match its grammar, the record is still produced, with no value
\* in that field and with the values of the fields that do match.
C22_NormalizationTotal ==
    (call.fn = "extract_hlj_details_page" /\ call.done) =>
        LET pg == call.arg
            rec == call.res
        IN  /\ ~rec.raised
            /\ ResultOf(rec) = "ok"
            /\ pg.price # <<"d1", "d2">> => rec.msrpJPY = NoPrice
            /\ pg.price = <<"d1", "d2">> => rec.msrpJPY = Price(12)
            /\ pg.release.kind # "ok" => rec.releaseDate = NoDate
            /\ pg.release.kind = "ok" =>
                   rec.releaseDate = parse_rfc3339(pg.release.date)
            /\ rec.series = (IF pg.series = "ok" THEN "value" ELSE None)
            /\ rec.type = (IF pg.type = "ok" THEN "value" ELSE None)
            /\ rec.size = (IF pg.size = "ok" THEN "value" ELSE None)

\* ------------------------------------------------------------------------
\* Further claims about the walker
\* ------------------------------------------------------------------------

\* The URL of the first item of a page that has one and is not in a set of
\* URLs, None when there is no such item.
FirstUrlNotIn(items, us) ==
    IF \E i \in 1..Len(items) : items[i].url \notin us \cup {NoUrl}
    THEN items[CHOOSE i \in 1..Len(items) :
                 /\ items[i].url \notin us \cup {NoUrl}
                 /\ \A j \in 1..(i - 1) : items[j].url \in us \cup {NoUrl}].url
    ELSE None

\* The run is under way or has ended.
InRun == w.pc # "idle"

\* C23 (as amended): the candidate checkpoint of a walker run is the URL of
\* the first item of page 1 that has a URL, whether or not that URL is in
\* the seen set; it is never taken from a later page; nothing is persisted
\* before the run ends successfully, and then the candidate becomes the
\* group's checkpoint, a run without candidate leaving the checkpoint as it
\* was.
C23_CandidateFromPageOne ==
    InRun =>
        /\ PageOneDone =>
               w.latest = FirstUrlNotIn(PageItems(listing[w.g], 1), {})
        /\ w.pc \in {"goto", "page"} /\ w.page_number = 1 => w.latest = None
        /\ w.pc # "done" => ckpt[w.g] = w.ckpt0
        /\ w.pc = "done" =>
               ckpt[w.g] = (IF w.latest # None THEN w.latest ELSE w.ckpt0)

\* C23 witness: a successful run that went beyond page 1 has persisted a
\* candidate that was in the seen set at its start and was not its
\* checkpoint, in place of an older checkpoint.
C23_Witness ==
    /\ w.pc = "done" /\ w.page_number > 1
    /\ w.latest \in w.seen0
    /\ w.ckpt0 \notin {None, w.latest}
    /\ ckpt[w.g] = w.latest

\* C23 as stated: the candidate is the URL of the first item of page 1 whose
\* URL is not in the seen set.
C23_Original ==
    (InRun /\ PageOneDone) =>
        w.latest = FirstUrlNotIn(PageItems(listing[w.g], 1), w.seen0)

\* C24: once the page counter has reached the maximum read from the first
\* page's pager the walker neither clicks nor navigates to a further page;
\* it extracts at most that many pages, and a run that does not abort ends
\* by a checkpoint hit, on the last page of the pager, or for want of a next
\* page.
C24_StopAtPagerMax ==
    (InRun /\ w.pc # "goto") =>
        /\ w.clicked < w.max_pages
        /\ w.fetched <= w.max_pages
        /\ w.pc = "page" => w.page_number <= w.max_pages
        /\ w.pc \in {"save", "done"} =>
               \/ w.hit
               \/ w.page_number >= w.max_pages
               \/ ~HasNext(listing[w.g], w.page_number)

\* ------------------------------------------------------------------------
\* The walker's page loop in two steps: the item loop, then write_rows
\* ------------------------------------------------------------------------

\* One iteration of `while page_number <= max_pages` up to the end of the
\* item loop: the page is waited for and extracted, and the loop queues the
\* page's rows (w.written counts them as emitted).
WExtract(g) ==
    /\ w.pc = "page" /\ w.g = g
    /\ LET items == PageItems(listing[g], w.page_number)
           st == ProcessItems(Site(g), w.page_number, w.checkpoint_url, items,
                              [seen |-> w.seen, latest |-> w.latest,
                               rows |-> <<>>, hit |-> FALSE,
                               elig |-> w.elig, met |-> w.met])
       IN  /\ PageReady(Site(g), items)
           /\ w' = [w EXCEPT
                      !.pc = "write",
                      !.seen = st.seen, !.latest = st.latest,
                      !.hit = st.hit, !.elig = st.elig, !.met = st.met,
                      !.rows = st.rows,
                      !.written = @ \o st.rows]
    /\ UNCHANGED <<listing, pager, sink, ckpt, fresh, dvars, rvars, redirect,
                   call>>

\* `saved_count = write_rows(fd, rows)` and the tests that follow it.
WWrite(g) ==
    /\ w.pc = "write" /\ w.g = g
    /\ sink' = [sink EXCEPT ![raw_path(g)] = write_rows(@, w.rows)]
    /\ w' = [w EXCEPT
               !.pc = AfterPage(Site(g), w.hit, w.page_number, w.max_pages,
                                HasNext(listing[g], w.page_number)),
               !.rows = <<>>]
    /\ UNCHANGED <<listing, pager, ckpt, fresh, dvars, rvars, redirect, call>>

\* Runs of the walker with the page loop in two steps (the two walkers have
\* the same loop; write_rows is the same function in both).
NextBatch ==
    \E g \in Groups :
        /\ g = w.g
        /\ \/ SiteAdd(g)
           \/ WStart(g)
           \/ WGoto(g)
           \/ WExtract(g)
           \/ WWrite(g)
           \/ WNext(g)
           \/ WFail(g)
           \/ WSave(g)

\* The runs of one grade of scrape_hlj.py are followed.
InitBatch == Init /\ w.g = "PG"

BatchSpec == InitBatch /\ [][NextBatch]_vars

\* The state part of C25: while a batch is queued the sink lacks that batch
\* only, and whenever the walker is about to request the next page, or has
\* stopped, nothing is queued and the sink holds every row the run emitted.
C25_BatchState ==
    InRun =>
        /\ w.pc = "write" => sink[w.g] \o w.rows = w.sink0 \o w.written
        /\ w.pc # "write" =>
               /\ w.rows = <<>>
               /\ sink[w.g] = w.sink0 \o w.written

\* The step part of C25: the step that requests page n+1, and the step that
\* ends the run, start with every emitted row in the sink.
C25_BatchStep ==
    (InRun /\ (w'.page_number # w.page_number \/ w'.pc = "done")) =>
        /\ w.rows = <<>>
        /\ sink[w.g] = w.sink0 \o w.written

\* C25: the walker writes and flushes each page's batch before it goes to
\* the next page: when page n+1 is requested the sink holds every record
\* emitted from pages 1..n, and the batch queued before a checkpoint hit is
\* written before the run stops.
C25_BatchBeforeNextPage == []C25_BatchState /\ [][C25_BatchStep]_vars

\* C25 witness: a run wrote the batch of page 1, went to page 2, hit its
\* checkpoint there and ended.
C25_Witness ==
    /\ w.pc = "done" /\ w.hit /\ w.page_number = 2
    /\ w.written # <<>>
    /\ sink[w.g] = w.sink0 \o w.written

\* The items of page 1 the item loop goes through: those in front of the
\* checkpoint, all of them when the checkpoint is not on the page.
BeforeCheckpoint ==
    LET items == PageItems(listing[w.g], 1)
        k == FirstIndex(items, w.checkpoint_url)
    IN  IF k > 0 THEN SubSeq(items, 1, k - 1) ELSE items

\* C26: a listing item is dropped only when its title or its URL is
\* missing: of the items the loop goes through on a page, each one that has
\* a title and a URL not met before is emitted, with a null price when it
\* has no price text, whatever was dropped in front of it; no row is
\* emitted without a URL.
C26_DropOnlyWithoutTitleOrUrl ==
    (InRun /\ PageOneDone) =>
        /\ \A i \in 1..Len(BeforeCheckpoint) :
               LET item == BeforeCheckpoint[i]
               IN  (/\ item.title /\ item.url # NoUrl
                    /\ item.url \notin w.seen0
                    /\ \A j \in 1..(i - 1) :
                           BeforeCheckpoint[j].url # item.url) =>
                       \E n \in 1..Len(w.written) : w.written[n] = Row(item)
        /\ \A n \in 1..Len(w.written) : w.written[n].url # NoUrl

\* C27: at the start of a run and after each page batch is flushed, the
\* seen set of the run equals the set of URLs in the group's sink: a URL
\* enters the seen set only together with a row queued for it.
C27_SeenEqualsSink ==
    /\ w.pc = "goto" => w.seen = read_urls_jsonl(sink[w.g])
    /\ (InRun /\ w.pc \in {"next", "save", "done"}) =>
           w.seen = read_urls_jsonl(sink[w.g])

\* ------------------------------------------------------------------------
\* The consuming loop of scrape_worker over a long run
\* ------------------------------------------------------------------------

\* Most pending URLs of a long run (the URLs are numbered here).
MaxPending == 12

\* What the loop tells apart in a result: a record or an error result.
ResultKinds == {"ok", "http"}

\* A run of scrape_worker over n pending URLs, its tasks created.
InitFlush ==
    /\ listing = [g \in Groups |-> <<>>]
    /\ pager = [g \in Groups |-> 1]
    /\ sink = [g \in Groups |-> <<>>]
    /\ ckpt = [g \in Groups |-> None]
    /\ fresh = [g \in Groups |-> FALSE]
    /\ w = IdleRun
    /\ dfile = <<>>
    /\ dbuf = <<>>
    /\ d \in {[IdleDetail EXCEPT !.pc = "running", !.urls = 1..n,
                                 !.sem = CONCURRENCY] : n \in 1..MaxPending}
    /\ task = [u \in URLs |-> NoTask]
    /\ completed = <<>>
    /\ rfile = <<>>
    /\ rbuf = <<>>
    /\ wr = NoWriter
    /\ redirect = {}
    /\ call = NoCall

\* `result = await future` and the loop body for the next task that ends,
\* whatever its result; after the last one the finally block runs.
LoopConsume ==
    /\ d.pc = "running"
    /\ d.done < Cardinality(d.urls)
    /\ \E ret \in ResultKinds, spill \in Spills :
         LET r == ConsumeOne(d, [file |-> dfile, buf |-> dbuf],
                             d.done + 1, ret, spill)
         IN  IF r.d.done = Cardinality(d.urls)
             THEN RunFinally(r.d, r.fs)
             ELSE /\ d' = r.d
                  /\ dfile' = r.fs.file
                  /\ dbuf' = r.fs.buf
                  /\ UNCHANGED task
    /\ UNCHANGED <<completed, wvars, rvars, redirect, call>>

NextFlush == LoopConsume \/ DExit

\* Long runs of the consuming loop, the tasks reduced to their results.
FlushSpec == InitFlush /\ [][NextFlush]_vars

\* C28: during a detail run the sink is flushed every time the count of
\* completed tasks reaches a multiple of 10, on a success and on an error
\* alike, and at the end of the run; at no point do 10 or more written
\* records wait in the buffer.
C28_FlushEveryTen ==
    /\ (d.pc = "running" /\ d.done > 0 /\ d.done % FLUSH_EVERY = 0) =>
           dbuf = <<>>
    /\ d.pc \in {"closing", "closed"} => dbuf = <<>>
    /\ Len(SplitLines(dbuf, <<>>)) < FLUSH_EVERY

\* C29: whenever a walker run has persisted a checkpoint, the sink of the
\* group holds a record of the item with that URL: the checkpoint never
\* names an item that was dropped or otherwise not emitted.
C29_CheckpointHasRecord ==
    \A g \in Groups :
        ckpt[g] # None => ckpt[g] \in read_urls_jsonl(sink[g])

\* C30: over any sequence of walker runs on a listing that only gains items
\* at the top, when a run has ended successfully and persisted a checkpoint,
\* every item listed at or after the checkpoint that carries all required
\* fields has a record in the sink (and keeps it, the sink being
\* append-only and the listing growing at the top only): stopping at the
\* checkpoint in later runs skips nothing that was never captured.
C30_NothingSkippedBehindCheckpoint ==
    (w.pc = "done" /\ w.latest # None) =>
        LET items == listing[w.g]
            k == FirstIndex(items, ckpt[w.g])
        IN  /\ ckpt[w.g] = w.latest
            /\ k > 0
            /\ \A i \in k..Len(items) :
                   RequiredOk(Site(w.g), items[i]) =>
                       items[i].url \in read_urls_jsonl(sink[w.g])

\* ------------------------------------------------------------------------
\* Several groups: main of scrape_hlj.py and of scrape_bandai_hobby.py run as
\* jobs for different grades, one after the other, against listings that do
\* not change meanwhile.
\* ------------------------------------------------------------------------

\* Blocks with a link, a title and a price: rows of either site.
GroupItems == {item \in RawItems : item.url # NoUrl /\ item.title /\ item.price}

\* A listing shows a product once.
Distinct(l) == \A i, j \in 1..Len(l) : l[i].url = l[j].url => i = j

\* The listings a grade can have.
GroupListings ==
    {l \in UNION {[1..n -> GroupItems] : n \in 0..MaxItems} : Distinct(l)}

\* The URLs a listing shows.
ListingUrls(l) == {l[i].url : i \in 1..Len(l)}

\* No job has run yet: ./data/raw and ./data/state are empty.
InitGroups ==
    /\ listing \in [Groups -> GroupListings]
    /\ pager = [g \in Groups |-> NumPages(listing[g])]
    /\ sink = [g \in Groups |-> <<>>]
    /\ ckpt = [g \in Groups |-> None]
    /\ fresh = [g \in Groups |-> FALSE]
    /\ w = IdleRun
    /\ dfile = <<>>
    /\ dbuf = <<>>
    /\ d = IdleDetail
    /\ task = [u \in URLs |-> NoTask]
    /\ completed = <<>>
    /\ rfile = <<>>
    /\ rbuf = <<>>
    /\ wr = NoWriter
    /\ redirect = {}
    /\ call = NoCall

\* A job for any grade starts once the job before it ended; the steps of a
\* job are the walker's.
NextGroups ==
    \E g \in Groups :
        \/ WStart(g)
        \/ WGoto(g)
        \/ WPage(g)
        \/ WNext(g)
        \/ WFail(g)
        \/ WSave(g)

GroupsSpec == InitGroups /\ [][NextGroups]_vars

\* What a run for w.g holds of the files: its seen set was read from the
\* sink of w.g and grew by URLs of the listing of w.g only, and its
\* checkpoint is the one of w.g.
C31_OwnFilesRead ==
    w.pc # "idle" =>
        /\ w.seen \subseteq
               read_urls_jsonl(w.sink0) \cup ListingUrls(listing[w.g])
        /\ w.checkpoint_url = load_group_checkpoint(w.ckpt0)
        /\ w.pc = "goto" =>
               /\ w.seen = read_urls_jsonl(sink[w.g])
               /\ w.checkpoint_url = load_group_checkpoint(ckpt[w.g])

\* A step that changes the sink or the checkpoint of a group is a step of a
\* run for that group.
C31_OwnFilesWritten ==
    \A h \in Groups :
        (sink'[h] # sink[h] \/ ckpt'[h] # ckpt[h]) => (w.g = h /\ w'.g = h)

\* C31: a walker run for group G reads and writes only G's sink and G's
\* checkpoint: the sinks and checkpoints of all other groups are unchanged by
\* the run, and the run's seen set holds no URL taken from another group's
\* sink.
C31_GroupIsolation == []C31_OwnFilesRead /\ [][C31_OwnFilesWritten]_vars

\* A run for BH-HG ended and wrote rows while PG has a sink and a checkpoint
\* of its own, with a URL the run never saw.
C31_Witness ==
    /\ w.pc = "done" /\ w.g = "BH-HG" /\ w.written # <<>>
    /\ sink["PG"] # <<>>
    /\ ckpt["PG"] # None /\ ckpt["PG"] # ckpt["BH-HG"]
    /\ \E u \in read_urls_jsonl(sink["PG"]) : u \notin w.seen

\* ------------------------------------------------------------------------
\* Detail runs one after the other, with the error results of the run before
\* kept in sight.
\* ------------------------------------------------------------------------

\* The URLs whose tasks returned an error result ({"error": ...}) in the run
\* that ended last.
Errored == {u \in URLs : task[u].pc = "done" /\ IsError(task[u].ret)}

\* main and the head of scrape_worker, as DStart; retry remembers the URLs
\* that ended in an error result in the run before.
DStartAgain ==
    /\ d.pc \in {"idle", "closed", "killed"}
    /\ \A u \in URLs : Ended(task[u])
    /\ PendingUrls # {}
    /\ Len(SplitLines(dfile, <<>>)) <= MaxDetailLines
    /\ d' = [retry |-> Errored] @@
            [IdleDetail EXCEPT !.pc = "running", !.urls = PendingUrls,
                               !.sem = CONCURRENCY, !.dfile0 = dfile]
    /\ task' = [u \in URLs |-> IF u \in PendingUrls THEN NewTask ELSE NoTask]
    /\ completed' = <<>>
    /\ UNCHANGED <<dfile, dbuf, wvars, rvars, redirect, call>>

\* Raw sinks that list u1 and u3, an empty detail sink and no redirect.
InitRetry ==
    /\ listing = [g \in Groups |-> <<>>]
    /\ pager = [g \in Groups |-> 1]
    /\ sink = [g \in Groups |->
                 IF g = "PG"
                 THEN SubSeq(ListedRows, 1, 1)
                 ELSE SubSeq(ListedRows, 3, Len(ListedRows))]
    /\ ckpt = [g \in Groups |-> None]
    /\ fresh = [g \in Groups |-> FALSE]
    /\ w = IdleRun
    /\ dfile = <<>>
    /\ dbuf = <<>>
    /\ d = IdleDetail
    /\ task = [u \in URLs |-> NoTask]
    /\ completed = <<>>
    /\ rfile = <<>>
    /\ rbuf = <<>>
    /\ wr = NoWriter
    /\ redirect = {}
    /\ call = NoCall

NextRetry ==
    \/ DStartAgain
    \/ DConsume
    \/ DInterrupt
    \/ DExit
    \/ \E u \in URLs :
         \/ TAcquire(u)
         \/ TNewPage(u)
         \/ TNewPageFail(u)
         \/ TAttempt(u)
         \/ TWake(u)
         \/ TCancelled(u)

RetrySpec == InitRetry /\ [][NextRetry]_vars

\* A URL whose task returned an error result has no line in the detail sink.
ErrorHasNoLine ==
    \A u \in Errored : u \notin read_data_jsonl(dfile \o dbuf)

\* The URLs that ended in an error result are pending in the next run, which
\* creates a task for each.
ErrorIsPendingNext ==
    d.pc # "idle" =>
        /\ d.retry \subseteq d.urls
        /\ \A u \in d.retry : task[u].pc # "none"

\* A run that no stop signal cut short has ended.
EndedUnstopped == d.pc \in {"closing", "closed"} /\ ~d.stopped

\* C32: a URL whose detail fetch ended in any error result (HTTP status,
\* parse_failed or scrape_exception) gets no line in the detail sink and is
\* therefore in the pending set of the next detail-fetch run, where it is
\* fetched again.
C32_ErrorRetriedNextRun ==
    /\ ErrorHasNoLine
    /\ ErrorIsPendingNext
    /\ EndedUnstopped => \A u \in d.retry : task[u].fetches >= 1

====
